---------------------------- MODULE Spec2Model ----------------------------
(***************************************************************************)
(* State-machine model of the client-side state core of the music app:     *)
(*   - the cache manager over AsyncStorage (services/cache),               *)
(*   - the pure queue functions (utils/queue),                             *)
(*   - the playback session (contexts/PlayerContext).                      *)
(* Three specifications share the module: SpecCache, SpecQueue, SpecPlayer.*)
(* Each one leaves the variables of the other two parts untouched.         *)
(***************************************************************************)
EXTENDS Integers, Sequences, FiniteSets, TLC

VARIABLES
  store,     \* AsyncStorage: key -> stored entry (or Absent)
  tick,      \* the clock: Date.now() is Instants[tick]
  nops,      \* number of cache operations issued so far
  ev,        \* the evictLRUCache call in progress / last finished
  last,      \* the last cache operation, its arguments and its result
  putLog,    \* per key: payload and time of the last put still standing
  call,      \* a call of one of the pure queue functions: arguments and result
  \* PlayerProvider: React state
  currentTrack, queue, queueIndex, isPlaying, isLoading, position, duration,
  repeatMode, shuffleEnabled,
  progressInterval,  \* progressIntervalRef: the timer and the render its callback closes over
  player,            \* the expo-audio player (transport)
  pending,           \* loadTrack calls suspended at await getTrackUri, oldest first
  saved,             \* the session keys of AsyncStorage: queue, index, position
  lastOp,            \* the last session operation and its arguments
  usedPlay,          \* play(track) has been called in this behaviour
  uiCalls,           \* the number of calls made from the UI so far
  \* UserProvider
  recentlyPlayed,    \* React state: the recently played list
  rendered,          \* the recentlyPlayed of the render addToRecentlyPlayed closes over
  recentStored,      \* AsyncStorage: the list under STORAGE_KEYS.RECENTLY_PLAYED
  userClock,         \* the clock read by new Date()
  userLast,          \* the last call made on the provider
  \* cache operations running as interleaved tasks
  tasks              \* the suspended getCachedData and housekeeping calls

cacheVars == <<store, tick, nops, ev, last, putLog>>

sessionVars == <<currentTrack, queue, queueIndex, isPlaying, isLoading, position,
                 duration, repeatMode, shuffleEnabled>>

playerVars == <<sessionVars, progressInterval, player, pending, saved, lastOp, usedPlay, uiCalls>>

userVars == <<recentlyPlayed, rendered, recentStored, userClock, userLast>>

otherThanCache == <<call, playerVars, userVars, tasks>>

otherThanQueue == <<cacheVars, playerVars, userVars, tasks>>

otherThanPlayer == <<cacheVars, call, userVars, tasks>>

otherThanUser == <<cacheVars, call, playerVars, tasks>>

otherThanTasks == <<nops, ev, last, putLog, call, playerVars, userVars>>

vars == <<cacheVars, call, playerVars, userVars, tasks>>

-----------------------------------------------------------------------------
(* Bounds of the model *)

MaxOps == 4           \* cache operations per behaviour
MaxLen == 3           \* longest track list handed to a queue function
MaxQueue == 3         \* longest session queue
MaxPending == 2       \* loadTrack calls in flight at once
MaxCalls == 3         \* calls made from the UI in one behaviour
MaxInsert == 2        \* longest list handed to insertIntoQueue
MaxAdds == 3          \* calls of addToRecentlyPlayed in one behaviour
MaxTaskOps == 4       \* cache calls started in one behaviour of interleaved tasks

-----------------------------------------------------------------------------
(* Keys.  Strings are atomic for TLC, so the substring tests of the source  *)
(* are tabulated for the keys of the model.                                 *)

KeyLibrary == "@music_app/library_cache"
KeyTracks1 == "@music_app/playlist_tracks_1"
KeyTracks2 == "@music_app/playlist_tracks_2"
KeyFavorites == "@music_app/favorites"

AllKeys == {KeyLibrary, KeyTracks1, KeyTracks2, KeyFavorites}

\* key.startsWith('@music_app/') && (key.includes('cache') || key.includes('_tracks_'))
IsCacheKey(key) == key \in {KeyLibrary, KeyTracks1, KeyTracks2}

detectCacheType(key) ==
  IF key = KeyLibrary THEN "library"
  ELSE IF key \in {KeyTracks1, KeyTracks2} THEN "playlist_tracks"
  ELSE "other"

-----------------------------------------------------------------------------
(* JSON.  Payloads are JSON arrays of one-digit numbers; JSONstringify      *)
(* produces the character sequence, JSONparse reads it back.                *)

DigitChar == <<"0", "1", "2", "3", "4", "5", "6", "7", "8", "9">>

CharDigit(c) == CHOOSE d \in 0..9 : DigitChar[d + 1] = c

RECURSIVE JoinDigits(_)
JoinDigits(v) ==
  IF Len(v) = 0 THEN <<>>
  ELSE IF Len(v) = 1 THEN <<DigitChar[v[1] + 1]>>
  ELSE <<DigitChar[v[1] + 1], ",">> \o JoinDigits(Tail(v))

JSONstringify(v) == <<"[">> \o JoinDigits(v) \o <<"]">>

JSONparse(s) ==
  LET inner == SubSeq(s, 2, Len(s) - 1)
  IN  [i \in 1..((Len(inner) + 1) \div 2) |-> CharDigit(inner[2 * i - 1])]

\* new Blob([jsonString]).size : one byte per ASCII character
BlobSize(jsonString) == Len(jsonString)

Payloads == {<<1>>, <<2, 3>>}

-----------------------------------------------------------------------------
(* AsyncStorage *)

Absent == [kind |-> "absent"]

Miss == [hit |-> FALSE]
Hit(data) == [hit |-> TRUE, data |-> data]

\* storeData(key, value): AsyncStorage.setItem(key, JSON.stringify(value))
storeData(s, key, value) == [s EXCEPT ![key] = value]

\* getData(key): the parsed value, or null
getData(s, key) == s[key]

\* removeData(key): AsyncStorage.removeItem(key)
removeData(s, key) == [s EXCEPT ![key] = Absent]

\* the cacheData object written by storeCachedData
CacheData(key, value, t) ==
  LET jsonString == JSONstringify(value)
  IN  [kind |-> "cached",
       data |-> jsonString,
       timestamp |-> t,
       lastAccessed |-> t,
       size |-> BlobSize(jsonString),
       type |-> detectCacheType(key)]

\* getAllCacheKeys(): the keys of the store that pass the cache-key filter
getAllCacheKeys(s) == {k \in AllKeys : s[k] # Absent /\ IsCacheKey(k)}

\* a || b || 0 on numbers: 0 is falsy
OrElse(a, b) == IF a # 0 THEN a ELSE b

\* one row of getCacheInventory()
InventoryRow(s, key) ==
  [key |-> key,
   size |-> s[key].size,
   lastAccessed |-> OrElse(s[key].lastAccessed, OrElse(s[key].timestamp, 0)),
   timestamp |-> s[key].timestamp,
   type |-> s[key].type]

\* cacheData && cacheData.size !== undefined
HasSize(s, key) == s[key] # Absent /\ s[key].kind = "cached"

\* getCacheInventory() when getAllCacheKeys() returns the keys in the order keyOrder
getCacheInventory(s, keyOrder) ==
  LET keep == SelectSeq(keyOrder, LAMBDA k : HasSize(s, k))
  IN  [i \in 1..Len(keep) |-> InventoryRow(s, keep[i])]

\* getAllCacheKeys() as an array: AsyncStorage.getAllKeys() fixes no order
\* (here: the keys in ascending or in descending order)
KeyOrders(s) ==
  LET asc == SelectSeq(<<KeyLibrary, KeyTracks1, KeyTracks2>>,
                       LAMBDA k : k \in getAllCacheKeys(s))
  IN  {asc, [i \in 1..Len(asc) |-> asc[Len(asc) + 1 - i]]}

\* a plausible slip: the reduce starts from 1 instead of 0
RECURSIVE SumSizesFromOne(_)
SumSizesFromOne(rows) ==
  IF Len(rows) = 0 THEN 1 ELSE rows[1].size + SumSizesFromOne(Tail(rows))

\* inventory.reduce((sum, entry) => sum + entry.size, 0)
RECURSIVE SumSizes(_)
SumSizes(rows) ==
  IF Len(rows) = 0 THEN 0 ELSE rows[1].size + SumSizes(Tail(rows))


-----------------------------------------------------------------------------
(* Time, in milliseconds *)

\* the instants at which the clock is read in the model
Instants == <<0, 300000, 700000>>

Now == Instants[tick]

CACHE_TTL_LIBRARY == 10 * 60 * 1000
CACHE_TTL_PLAYLIST_TRACKS == 5 * 60 * 1000

TTLs == {CACHE_TTL_PLAYLIST_TRACKS, CACHE_TTL_LIBRARY}

\* the protectedKeys arguments of the model
ProtectedChoices == SUBSET {KeyLibrary, KeyTracks1}

\* the maxSizeBytes arguments of the model
Budgets == {0, 5}

-----------------------------------------------------------------------------
(* Array.prototype.sort with the comparator (a, b) => a.lastAccessed -      *)
(* b.lastAccessed: a stable sort, here by insertion.                        *)

\* a plausible slip: a sort that is not stable (equal keys change places)
RECURSIVE InsertUnstable(_, _)
InsertUnstable(sorted, row) ==
  IF Len(sorted) = 0 THEN <<row>>
  ELSE IF sorted[Len(sorted)].lastAccessed - row.lastAccessed < 0
       THEN Append(sorted, row)
       ELSE Append(InsertUnstable(SubSeq(sorted, 1, Len(sorted) - 1), row),
                   sorted[Len(sorted)])

RECURSIVE InsertByLastAccessed(_, _)
InsertByLastAccessed(sorted, row) ==
  IF Len(sorted) = 0 THEN <<row>>
  ELSE IF sorted[Len(sorted)].lastAccessed - row.lastAccessed <= 0
       THEN Append(sorted, row)
       ELSE Append(InsertByLastAccessed(SubSeq(sorted, 1, Len(sorted) - 1), row),
                   sorted[Len(sorted)])

RECURSIVE SortOldestFirst(_)
SortOldestFirst(rows) ==
  IF Len(rows) = 0 THEN <<>>
  ELSE InsertByLastAccessed(SortOldestFirst(SubSeq(rows, 1, Len(rows) - 1)),
                            rows[Len(rows)])

\* a plausible slip: the protected keys are not filtered out
EvictableUnfiltered(inventory, protectedKeys) == inventory

\* inventory.filter(entry => !protectedKeys.includes(entry.key))
EvictableEntries(inventory, protectedKeys) ==
  SelectSeq(inventory, LAMBDA row : row.key \notin protectedKeys)

\* a plausible slip: the loop breaks on sizeToFree < 0 instead of <= 0
EvictLoopRunsLate(evictable, i, sizeToFree) ==
  i <= Len(evictable) /\ ~(sizeToFree < 0)

\* the loop test of evictLRUCache: another entry is left and sizeToFree > 0
EvictLoopRuns(evictable, i, sizeToFree) ==
  i <= Len(evictable) /\ ~(sizeToFree <= 0)

-----------------------------------------------------------------------------
(* Cache operations *)

NoPut == [put |-> FALSE]

EvIdle == [pc |-> "idle"]

\* no getCachedData or housekeeping call has started yet
TasksIdle ==
  [n |-> 0, get |-> [pc |-> "idle"], house |-> [pc |-> "idle"],
   last |-> [op |-> "none"]]

\* the cache at first start: an empty store
CacheEmpty ==
  /\ store = [k \in AllKeys |-> Absent]
  /\ tick = 1
  /\ nops = 0
  /\ ev = EvIdle
  /\ last = [op |-> "none"]
  /\ putLog = [k \in AllKeys |-> NoPut]
  /\ tasks = TasksIdle

NoCall == [fn |-> "none"]


\* no evictLRUCache call is between two of its removals
CacheQuiet == ev.pc # "loop"

Tick ==
  /\ tick < Len(Instants)
  /\ tick' = tick + 1
  /\ UNCHANGED <<store, nops, ev, last, putLog>>
  /\ UNCHANGED otherThanCache

\* the promise of storeCachedData: storeData logs and rethrows the error of
\* AsyncStorage.setItem, and storeCachedData logs and rethrows it again
PutOutcome(setItemFails) == IF setItemFails THEN "rejected" ELSE "resolved"

\* storeCachedData(key, value); setItemFails: AsyncStorage.setItem rejects
Put(key, value, setItemFails) ==
  /\ CacheQuiet /\ nops < MaxOps
  /\ IF setItemFails
     THEN UNCHANGED <<store, putLog>>
     ELSE /\ store' = storeData(store, key, CacheData(key, value, Now))
          /\ putLog' = [putLog EXCEPT ![key] = [put |-> TRUE, payload |-> value,
                                                 at |-> Now, expired |-> FALSE]]
  /\ last' = [op |-> "put", key |-> key, setItemFails |-> setItemFails,
              outcome |-> PutOutcome(setItemFails), before |-> store[key]]
  /\ ev' = EvIdle
  /\ nops' = nops + 1
  /\ UNCHANGED tick
  /\ UNCHANGED otherThanCache

\* a plausible slip: an entry exactly ttl old still counts as valid
CacheValidInclusive(t, timestamp, ttl) == t - timestamp <= ttl

\* "Check if cache is still valid": now - timestamp < ttl
CacheValid(t, timestamp, ttl) == t - timestamp < ttl

\* getCachedData(key, ttl): the value returned
GetResult(s, key, ttl, t) ==
  LET cacheData == getData(s, key)
  IN  IF cacheData = Absent THEN Miss
      ELSE IF CacheValid(t, cacheData.timestamp, ttl)
           THEN Hit(JSONparse(cacheData.data))
           ELSE Miss

\* a plausible slip: the hit refreshes timestamp along with lastAccessed
GetStoreRefreshes(s, key, ttl, t) ==
  LET cacheData == getData(s, key)
  IN  IF cacheData = Absent THEN s
      ELSE IF CacheValid(t, cacheData.timestamp, ttl)
           THEN storeData(s, key, [cacheData EXCEPT
                                     !.lastAccessed = t,
                                     !.timestamp = t,
                                     !.data = JSONstringify(JSONparse(cacheData.data))])
           ELSE removeData(s, key)

\* getCachedData(key, ttl): the store it leaves
GetStore(s, key, ttl, t) ==
  LET cacheData == getData(s, key)
  IN  IF cacheData = Absent THEN s
      ELSE IF CacheValid(t, cacheData.timestamp, ttl)
           THEN storeData(s, key, [cacheData EXCEPT
                                     !.lastAccessed = t,
                                     !.data = JSONstringify(JSONparse(cacheData.data))])
           ELSE removeData(s, key)

Get(key, ttl) ==
  /\ CacheQuiet /\ nops < MaxOps
  /\ store[key] = Absent \/ store[key].kind = "cached"
  /\ store' = GetStore(store, key, ttl, Now)
  /\ last' = [op |-> "get", key |-> key, ttl |-> ttl, at |-> Now,
              result |-> GetResult(store, key, ttl, Now), log |-> putLog[key]]
  /\ putLog' = IF store[key] # Absent /\ store'[key] = Absent
               THEN [putLog EXCEPT ![key].expired = TRUE]
               ELSE putLog
  /\ ev' = EvIdle
  /\ nops' = nops + 1
  /\ UNCHANGED tick
  /\ UNCHANGED otherThanCache

\* removeData(key) called by a screen to invalidate a cache entry
Invalidate(key) ==
  /\ CacheQuiet /\ nops < MaxOps
  /\ store' = removeData(store, key)
  /\ putLog' = [putLog EXCEPT ![key] = NoPut]
  /\ last' = [op |-> "invalidate", key |-> key]
  /\ ev' = EvIdle
  /\ nops' = nops + 1
  /\ UNCHANGED tick
  /\ UNCHANGED otherThanCache

\* evictLRUCache has not returned yet
NotReturned == [returned |-> FALSE]

\* return { evictedCount, freedBytes }
Returned(evictedCount, freedBytes) ==
  [returned |-> TRUE, evictedCount |-> evictedCount, freedBytes |-> freedBytes]

\* how a call of evictLRUCache(maxSizeBytes, ...) relates to the cache
\* operation before it: "repeat" when that was an evictLRUCache call with the
\* same maxSizeBytes that returned having deleted entries, "first" otherwise
PreviousEviction(maxSizeBytes) ==
  IF /\ last.op = "evict" /\ ev.pc = "done"
     /\ ev.maxSizeBytes = maxSizeBytes /\ ev.result.evictedCount >= 1
  THEN "repeat" ELSE "first"

\* evictLRUCache(maxSizeBytes, protectedKeys), up to its first removal
EvictStart(maxSizeBytes, protectedKeys, keyOrder) ==
  /\ CacheQuiet /\ nops < MaxOps
  /\ LET inventory == getCacheInventory(store, keyOrder)
         currentSize == SumSizes(inventory)
         evictable == SortOldestFirst(EvictableEntries(inventory, protectedKeys))
         sizeToFree == currentSize - maxSizeBytes
         pc == IF currentSize <= maxSizeBytes THEN "done"
               ELSE IF EvictLoopRuns(evictable, 1, sizeToFree) THEN "loop"
               ELSE "done"
     IN  ev' = [pc |-> pc,
                maxSizeBytes |-> maxSizeBytes,
                protectedKeys |-> protectedKeys,
                inventory |-> inventory,
                evictable |-> IF currentSize <= maxSizeBytes THEN <<>> ELSE evictable,
                i |-> 1,
                sizeToFree |-> sizeToFree,
                evictedCount |-> 0,
                freedBytes |-> 0,
                deleted |-> <<>>,
                result |-> IF pc = "done" THEN Returned(0, 0) ELSE NotReturned,
                follows |-> PreviousEviction(maxSizeBytes)]
  /\ last' = [op |-> "evict", before |-> store]
  /\ nops' = nops + 1
  /\ UNCHANGED <<store, tick, putLog>>
  /\ UNCHANGED otherThanCache

\* one pass of the eviction loop: removeData(entry.key) and the bookkeeping.
\* removeItemFails: AsyncStorage.removeItem rejects; removeData logs and
\* rethrows, and the catch of evictLRUCache returns
\* { evictedCount: 0, freedBytes: 0 }
EvictStep(removeItemFails) ==
  /\ ev.pc = "loop"
  /\ IF removeItemFails
     THEN /\ ev' = [ev EXCEPT !.pc = "failed", !.result = Returned(0, 0)]
          /\ UNCHANGED <<store, putLog>>
     ELSE LET entry == ev.evictable[ev.i]
              sizeToFree == ev.sizeToFree - entry.size
              freedBytes == ev.freedBytes + entry.size
              evictedCount == ev.evictedCount + 1
              pc == IF EvictLoopRuns(ev.evictable, ev.i + 1, sizeToFree)
                    THEN "loop" ELSE "done"
          IN  /\ store' = removeData(store, entry.key)
              /\ putLog' = [putLog EXCEPT ![entry.key] = NoPut]
              /\ ev' = [ev EXCEPT
                          !.pc = pc,
                          !.i = ev.i + 1,
                          !.sizeToFree = sizeToFree,
                          !.freedBytes = freedBytes,
                          !.evictedCount = evictedCount,
                          !.deleted = Append(ev.deleted, entry.key),
                          !.result = IF pc = "done"
                                     THEN Returned(evictedCount, freedBytes)
                                     ELSE NotReturned]
  /\ UNCHANGED <<tick, nops, last>>
  /\ UNCHANGED otherThanCache

\* "Default TTL: 10 minutes (for entries without specific TTL)"
DEFAULT_TTL == 10 * 60 * 1000

\* a plausible slip: the age is counted from the last access
PurgesByLastAccess(now, entry) == now - entry.lastAccessed > DEFAULT_TTL

\* "If cache is older than default TTL, remove it"
PurgesEntry(now, entry) == now - entry.timestamp > DEFAULT_TTL

\* the store after removeData(key) for each key of the set keys
RemoveAll(s, keys) == [k \in AllKeys |-> IF k \in keys THEN Absent ELSE s[k]]

\* cleanupExpiredCache()
Purge(keyOrder) ==
  /\ CacheQuiet /\ nops < MaxOps
  /\ LET inventory == getCacheInventory(store, keyOrder)
         expired == SelectSeq(inventory, LAMBDA entry : PurgesEntry(Now, entry))
         removed == {expired[i].key : i \in 1..Len(expired)}
     IN  /\ store' = RemoveAll(store, removed)
         /\ putLog' = [k \in AllKeys |-> IF k \in removed THEN NoPut ELSE putLog[k]]
         /\ last' = [op |-> "purge", at |-> Now, before |-> store,
                     removedCount |-> Len(expired)]
  /\ ev' = EvIdle
  /\ nops' = nops + 1
  /\ UNCHANGED tick
  /\ UNCHANGED otherThanCache

\* a plausible slip: the protected keys are cleared with the rest
ClearsEveryKey(key, protectedKeys) == TRUE

\* !protectedKeys.includes(key)
ClearsKey(key, protectedKeys) == key \notin protectedKeys

\* clearNonProtectedCache(protectedKeys)
ClearNonProtected(protectedKeys, keyOrder) ==
  /\ CacheQuiet /\ nops < MaxOps
  /\ LET cleared == SelectSeq(keyOrder, LAMBDA key : ClearsKey(key, protectedKeys))
         removed == {cleared[i] : i \in 1..Len(cleared)}
     IN  /\ store' = RemoveAll(store, removed)
         /\ putLog' = [k \in AllKeys |-> IF k \in removed THEN NoPut ELSE putLog[k]]
         /\ last' = [op |-> "clear", protectedKeys |-> protectedKeys, before |-> store,
                     clearedCount |-> Len(cleared)]
  /\ ev' = EvIdle
  /\ nops' = nops + 1
  /\ UNCHANGED tick
  /\ UNCHANGED otherThanCache

\* calculateTotalCacheSize() when getAllCacheKeys() lists the keys as keyOrder
calculateTotalCacheSize(s, keyOrder) == SumSizes(getCacheInventory(s, keyOrder))

\* a plausible slip: the group is overwritten instead of added to
AddToGroupOverwrites(group, entry) == [size |-> entry.size, count |-> 1]

\* byType[entry.type].size += entry.size; byType[entry.type].count += 1
AddToGroup(group, entry) ==
  [size |-> group.size + entry.size, count |-> group.count + 1]

\* inventory.forEach(entry => ...) of getCacheStats: byType after the rows
RECURSIVE GroupByType(_, _)
GroupByType(rows, byType) ==
  IF Len(rows) = 0 THEN byType
  ELSE LET entry == rows[1]
           started == IF entry.type \in DOMAIN byType THEN byType
                      ELSE byType @@ (entry.type :> [size |-> 0, count |-> 0])
       IN  GroupByType(Tail(rows),
                       [started EXCEPT ![entry.type] = AddToGroup(@, entry)])

\* getCacheStats() when getAllCacheKeys() lists the keys as keyOrder
getCacheStats(s, keyOrder) ==
  LET inventory == getCacheInventory(s, keyOrder)
  IN  [totalSize |-> SumSizes(inventory),
       entryCount |-> Len(inventory),
       byType |-> GroupByType(inventory, <<>>)]

\* calculateTotalCacheSize() followed by getCacheStats(), as a settings
\* screen reads them
Stats(keyOrder) ==
  /\ CacheQuiet /\ nops < MaxOps
  /\ last' = [op |-> "stats",
              totalSize |-> calculateTotalCacheSize(store, keyOrder),
              stats |-> getCacheStats(store, keyOrder)]
  /\ ev' = EvIdle
  /\ nops' = nops + 1
  /\ UNCHANGED <<store, tick, putLog>>
  /\ UNCHANGED otherThanCache

CacheNext ==
  \/ Tick
  \/ \E key \in AllKeys, value \in Payloads, setItemFails \in BOOLEAN :
       Put(key, value, setItemFails)
  \/ \E key \in AllKeys, ttl \in TTLs : Get(key, ttl)
  \/ \E key \in AllKeys : Invalidate(key)
  \/ \E maxSizeBytes \in Budgets, protectedKeys \in ProtectedChoices,
        keyOrder \in KeyOrders(store) :
       EvictStart(maxSizeBytes, protectedKeys, keyOrder)
  \/ \E removeItemFails \in BOOLEAN : EvictStep(removeItemFails)
  \/ \E keyOrder \in KeyOrders(store) : Purge(keyOrder)
  \/ \E protectedKeys \in ProtectedChoices, keyOrder \in KeyOrders(store) :
       ClearNonProtected(protectedKeys, keyOrder)
  \/ \E keyOrder \in KeyOrders(store) : Stats(keyOrder)

-----------------------------------------------------------------------------
(* Cache operations as asynchronous tasks: every await on AsyncStorage is a *)
(* point where another task may run.                                         *)

\* CACHE_CONFIG.PROTECTED_KEYS, as far as the keys of the model go
PROTECTED_KEYS == {KeyLibrary, KeyFavorites}

\* CACHE_CONFIG.MAX_CACHE_SIZE_MB * 1024 * 1024
MAX_CACHE_SIZE_BYTES == 50 * 1024 * 1024

\* the keys the screens cache under
CachedKeys == {KeyLibrary, KeyTracks1, KeyTracks2}

\* a getCachedData call is between its read and its write
GetSuspended(t) == t.get.pc = "read"

\* cleanupExpiredCache or evictLRUCache is between its inventory and its
\* last removal
HouseLoops(t) == t.house.pc \in {"purge", "evict"}

\* the tasks after storeCachedData(key, ...) has completed: the suspended
\* tasks that read the key before are marked
AfterPut(t, key) ==
  [t EXCEPT
     !.get = IF GetSuspended(t) /\ t.get.key = key
             THEN [@ EXCEPT !.overtaken = TRUE] ELSE @,
     !.house = IF HouseLoops(t)
               THEN [@ EXCEPT !.overtaken = @ \cup {key}] ELSE @]

\* the tasks after removeData(key) has completed
AfterInvalidate(t, key) ==
  [t EXCEPT
     !.get = IF GetSuspended(t) /\ t.get.key = key
             THEN [@ EXCEPT !.overtaken = TRUE] ELSE @]

TaskTick ==
  /\ tick < Len(Instants)
  /\ tick' = tick + 1
  /\ tasks' = [tasks EXCEPT !.last = [op |-> "tick"]]
  /\ UNCHANGED store
  /\ UNCHANGED otherThanTasks

\* storeCachedData(key, value); setItemFails: AsyncStorage.setItem rejects
TaskPut(key, value, setItemFails) ==
  /\ tasks.n < MaxTaskOps
  /\ IF setItemFails
     THEN /\ UNCHANGED store
          /\ tasks' = [tasks EXCEPT !.n = @ + 1, !.last = [op |-> "put"]]
     ELSE /\ store' = storeData(store, key, CacheData(key, value, Now))
          /\ tasks' = [AfterPut(tasks, key) EXCEPT
                         !.n = @ + 1, !.last = [op |-> "put"]]
  /\ UNCHANGED tick
  /\ UNCHANGED otherThanTasks

\* removeData(key) called by a screen to invalidate a cache entry
TaskInvalidate(key) ==
  /\ tasks.n < MaxTaskOps
  /\ store' = removeData(store, key)
  /\ tasks' = [AfterInvalidate(tasks, key) EXCEPT
                 !.n = @ + 1, !.last = [op |-> "invalidate"]]
  /\ UNCHANGED tick
  /\ UNCHANGED otherThanTasks

\* getCachedData(key, ttl) up to the result of await getData(key); a missing
\* entry returns null at once
GetRead(key, ttl) ==
  /\ tasks.n < MaxTaskOps
  /\ ~GetSuspended(tasks)
  /\ LET cacheData == getData(store, key)
     IN  tasks' = [tasks EXCEPT
                     !.n = @ + 1,
                     !.last = [op |-> "getRead"],
                     !.get = IF cacheData = Absent
                             THEN [pc |-> "done", key |-> key, result |-> Miss]
                             ELSE [pc |-> "read", key |-> key, ttl |-> ttl,
                                   cacheData |-> cacheData, overtaken |-> FALSE]]
  /\ UNCHANGED <<store, tick>>
  /\ UNCHANGED otherThanTasks

\* the rest of getCachedData on the cacheData it read: the entry is stored
\* again with lastAccessed = now while it is valid and removed otherwise
WriteBack(s, key, cacheData, ttl, t) ==
  IF CacheValid(t, cacheData.timestamp, ttl)
  THEN storeData(s, key, [cacheData EXCEPT
                            !.lastAccessed = t,
                            !.data = JSONstringify(JSONparse(cacheData.data))])
  ELSE removeData(s, key)

\* getCachedData from const now = Date.now() to its return; storageFails:
\* the setItem or removeItem rejects (storeData(...).catch swallows the
\* first, the catch of getCachedData the second)
GetWriteBack(storageFails) ==
  /\ GetSuspended(tasks)
  /\ LET g == tasks.get
         valid == CacheValid(Now, g.cacheData.timestamp, g.ttl)
     IN  /\ store' = IF storageFails THEN store
                     ELSE WriteBack(store, g.key, g.cacheData, g.ttl, Now)
         /\ tasks' = [tasks EXCEPT
                        !.last = [op |-> "getWriteBack"],
                        !.get = [pc |-> "done", key |-> g.key,
                                 result |-> IF valid
                                            THEN Hit(JSONparse(g.cacheData.data))
                                            ELSE Miss]]
  /\ UNCHANGED tick
  /\ UNCHANGED otherThanTasks

\* the keys of the inventory rows cleanupExpiredCache removes
ExpiredKeys(inventory, now) ==
  LET expired == SelectSeq(inventory, LAMBDA entry : PurgesEntry(now, entry))
  IN  [i \in 1..Len(expired) |-> expired[i].key]

\* App.initializeCache, up to the first removal of cleanupExpiredCache
StartInitializeCache(keyOrder) ==
  /\ tasks.n < MaxTaskOps
  /\ ~HouseLoops(tasks) /\ tasks.house.pc # "between"
  /\ LET expired == ExpiredKeys(getCacheInventory(store, keyOrder), Now)
     IN  tasks' = [tasks EXCEPT
                     !.n = @ + 1,
                     !.last = [op |-> "initializeCache"],
                     !.house = IF expired = <<>>
                               THEN [pc |-> "between"]
                               ELSE [pc |-> "purge", startup |-> TRUE,
                                     keys |-> expired, i |-> 1,
                                     overtaken |-> {}]]
  /\ UNCHANGED <<store, tick>>
  /\ UNCHANGED otherThanTasks

\* one pass of the loop of cleanupExpiredCache: removeData(entry.key).
\* removeItemFails: the catch of cleanupExpiredCache returns 0 and
\* initializeCache goes on to evictLRUCache
PurgeStep(removeItemFails) ==
  /\ tasks.house.pc = "purge"
  /\ LET h == tasks.house
         finished == removeItemFails \/ h.i = Len(h.keys)
     IN  /\ store' = IF removeItemFails THEN store
                     ELSE removeData(store, h.keys[h.i])
         /\ tasks' = [tasks EXCEPT
                        !.last = [op |-> "purgeStep"],
                        !.house = IF finished THEN [pc |-> "between"]
                                  ELSE [h EXCEPT !.i = @ + 1]]
  /\ UNCHANGED tick
  /\ UNCHANGED otherThanTasks

\* evictLRUCache(maxSizeBytes, protectedKeys) up to its first removal
EvictTask(s, maxSizeBytes, protectedKeys, keyOrder, startup) ==
  LET inventory == getCacheInventory(s, keyOrder)
      currentSize == SumSizes(inventory)
      evictable == SortOldestFirst(EvictableEntries(inventory, protectedKeys))
      sizeToFree == currentSize - maxSizeBytes
  IN  IF currentSize <= maxSizeBytes
         \/ ~EvictLoopRuns(evictable, 1, sizeToFree)
      THEN [pc |-> "done"]
      ELSE [pc |-> "evict", startup |-> startup,
            keys |-> [i \in 1..Len(evictable) |-> evictable[i].key],
            sizes |-> [i \in 1..Len(evictable) |-> evictable[i].size],
            i |-> 1, sizeToFree |-> sizeToFree, overtaken |-> {}]

\* App.initializeCache after cleanupExpiredCache:
\* evictLRUCache(maxSizeBytes, CACHE_CONFIG.PROTECTED_KEYS)
EvictSnapshot(keyOrder) ==
  /\ tasks.house.pc = "between"
  /\ tasks' = [tasks EXCEPT
                 !.last = [op |-> "evictSnapshot"],
                 !.house = EvictTask(store, MAX_CACHE_SIZE_BYTES, PROTECTED_KEYS,
                                     keyOrder, TRUE)]
  /\ UNCHANGED <<store, tick>>
  /\ UNCHANGED otherThanTasks

\* evictLRUCache(maxSizeBytes, protectedKeys) called on its own
StartEvict(maxSizeBytes, protectedKeys, keyOrder) ==
  /\ tasks.n < MaxTaskOps
  /\ ~HouseLoops(tasks) /\ tasks.house.pc # "between"
  /\ tasks' = [tasks EXCEPT
                 !.n = @ + 1,
                 !.last = [op |-> "evict"],
                 !.house = EvictTask(store, maxSizeBytes, protectedKeys,
                                     keyOrder, FALSE)]
  /\ UNCHANGED <<store, tick>>
  /\ UNCHANGED otherThanTasks

\* one pass of the loop of evictLRUCache: removeData(entry.key);
\* removeItemFails: the catch of evictLRUCache returns
EvictRemove(removeItemFails) ==
  /\ tasks.house.pc = "evict"
  /\ LET h == tasks.house
         sizeToFree == h.sizeToFree - h.sizes[h.i]
         finished == removeItemFails
                     \/ ~(h.i + 1 <= Len(h.keys) /\ ~(sizeToFree <= 0))
     IN  /\ store' = IF removeItemFails THEN store
                     ELSE removeData(store, h.keys[h.i])
         /\ tasks' = [tasks EXCEPT
                        !.last = [op |-> "evictRemove"],
                        !.house = IF finished THEN [pc |-> "done"]
                                  ELSE [h EXCEPT !.i = @ + 1,
                                                 !.sizeToFree = sizeToFree]]
  /\ UNCHANGED tick
  /\ UNCHANGED otherThanTasks

\* Object.keys(inventory) in clearPlaylistTrackCaches, where inventory is the
\* object returned by getCacheStats()
ObjectKeys(stats) == <<"totalSize", "entryCount", "byType">>

\* key.startsWith(STORAGE_KEYS.PLAYLIST_TRACKS_PREFIX)
StartsWithPlaylistTracksPrefix(key) == key \in {KeyTracks1, KeyTracks2}

\* clearPlaylistTrackCaches(): removeData for each key of the getCacheStats()
\* object that starts with the prefix
clearPlaylistTrackCaches(s, keyOrder) ==
  LET inventory == getCacheStats(s, keyOrder)
      playlistKeys == SelectSeq(ObjectKeys(inventory),
                                StartsWithPlaylistTracksPrefix)
  IN  RemoveAll(s, {playlistKeys[i] : i \in 1..Len(playlistKeys)})

\* the store after refreshPlaylists() when fetchPlaylists resolved and the
\* library entry merged with the fetched playlists is value
refreshedStore(s, value, t, keyOrder) ==
  LET cachedData == GetResult(s, KeyLibrary, CACHE_TTL_LIBRARY, t)
      read == GetStore(s, KeyLibrary, CACHE_TTL_LIBRARY, t)
      updated == IF cachedData.hit
                 THEN storeData(read, KeyLibrary, CacheData(KeyLibrary, value, t))
                 ELSE read
  IN  clearPlaylistTrackCaches(updated, keyOrder)

\* refreshPlaylists() of LibraryProvider; fetchFails: fetchPlaylists rejects
\* and the catch sets the error
RefreshPlaylists(fetchFails, value, reversed) ==
  /\ tasks.n < MaxTaskOps
  /\ IF fetchFails
     THEN /\ UNCHANGED store
          /\ tasks' = [tasks EXCEPT
                         !.n = @ + 1,
                         !.last = [op |-> "refreshPlaylists", fetchFails |-> TRUE]]
     ELSE LET asc == SelectSeq(<<KeyLibrary, KeyTracks1, KeyTracks2>>,
                               LAMBDA k : store[k] # Absent)
              keyOrder == IF reversed
                          THEN [i \in 1..Len(asc) |-> asc[Len(asc) + 1 - i]]
                          ELSE asc
              hit == GetResult(store, KeyLibrary, CACHE_TTL_LIBRARY, Now).hit
          IN  /\ store' = refreshedStore(store, value, Now, keyOrder)
              /\ tasks' = [(IF hit THEN AfterPut(tasks, KeyLibrary) ELSE tasks)
                             EXCEPT !.n = @ + 1,
                                    !.last = [op |-> "refreshPlaylists",
                                              fetchFails |-> FALSE]]
  /\ UNCHANGED tick
  /\ UNCHANGED otherThanTasks

TasksNext ==
  \/ TaskTick
  \/ \E key \in CachedKeys, value \in Payloads, setItemFails \in BOOLEAN :
       TaskPut(key, value, setItemFails)
  \/ \E key \in CachedKeys : TaskInvalidate(key)
  \/ \E key \in CachedKeys, ttl \in TTLs : GetRead(key, ttl)
  \/ \E storageFails \in BOOLEAN : GetWriteBack(storageFails)
  \/ \E reversed \in BOOLEAN :
       StartInitializeCache(IF reversed THEN <<KeyTracks2, KeyTracks1, KeyLibrary>>
                            ELSE <<KeyLibrary, KeyTracks1, KeyTracks2>>)
  \/ \E removeItemFails \in BOOLEAN : PurgeStep(removeItemFails)
  \/ \E reversed \in BOOLEAN :
       EvictSnapshot(IF reversed THEN <<KeyTracks2, KeyTracks1, KeyLibrary>>
                     ELSE <<KeyLibrary, KeyTracks1, KeyTracks2>>)
  \/ \E maxSizeBytes \in Budgets, protectedKeys \in ProtectedChoices,
        reversed \in BOOLEAN :
       StartEvict(maxSizeBytes, protectedKeys,
                  IF reversed THEN <<KeyTracks2, KeyTracks1, KeyLibrary>>
                  ELSE <<KeyLibrary, KeyTracks1, KeyTracks2>>)
  \/ \E removeItemFails \in BOOLEAN : EvictRemove(removeItemFails)
  \/ \E fetchFails \in BOOLEAN, value \in Payloads, reversed \in BOOLEAN :
       RefreshPlaylists(fetchFails, value, reversed)



-----------------------------------------------------------------------------
(* utils/queue: the pure queue functions.  Indices are 0-based as in the    *)
(* source; a JavaScript array a is the sequence with a[i] at position i+1.  *)

Tracks == {"A", "B", "C"}

Undefined == "undefined"

Null == [null |-> TRUE]
Some(v) == [null |-> FALSE, v |-> v]

RepeatModes == {"off", "one", "all"}

\* array[i] of JavaScript
At(array, i) == IF i >= 0 /\ i < Len(array) THEN array[i + 1] ELSE Undefined

RECURSIVE SeqsUpTo(_, _)
SeqsUpTo(S, n) ==
  IF n = 0 THEN {<<>>}
  ELSE LET shorter == SeqsUpTo(S, n - 1)
       IN  shorter \cup {Append(q, x) : q \in {r \in shorter : Len(r) = n - 1}, x \in S}

TrackLists == SeqsUpTo(Tracks, MaxLen)

\* a plausible slip: the swap writes a[i] and forgets a[j]
SwapOverwrites(array, i, j) ==
  [array EXCEPT ![i + 1] = array[j + 1]]

\* [a[i], a[j]] = [a[j], a[i]]
Swap(array, i, j) ==
  [array EXCEPT ![i + 1] = array[j + 1], ![j + 1] = array[i + 1]]

\* the values Math.floor(Math.random() * (i + 1)) can take for i = n-1 .. 1:
\* js[i] is the j drawn in the pass with index i
RandomDraws(n) ==
  IF n <= 1 THEN {<<>>}
  ELSE {js \in [1..(n - 1) -> 0..(n - 1)] : \A i \in 1..(n - 1) : js[i] <= i}

\* the Fisher-Yates loop of shuffle, from index i down to 1
RECURSIVE ShuffleFrom(_, _, _)
ShuffleFrom(newArray, i, js) ==
  IF i > 0 THEN ShuffleFrom(Swap(newArray, i, js[i]), i - 1, js) ELSE newArray

\* shuffle(array) when Math.random() yields the draws js
shuffle(array, js) == ShuffleFrom(array, Len(array) - 1, js)

\* [...array]: the elements of array in a new array object.  Sequences are
\* values, so the identity of an array object is carried by a tag.
Spread(array) == [ref |-> "new", items |-> array]

\* the array object the caller passed in
Argument(array) == [ref |-> "argument", items |-> array]

\* what the caller's array holds after a function that wrote items into the
\* array object written
ArgumentAfter(array, written, items) ==
  IF written.ref = Argument(array).ref THEN items ELSE array

\* a plausible slip: an off-by-one in the last-track test
getNextIndexOffByOne(currentIndex, queueLength, mode) ==
  IF queueLength = 0 THEN Null
  ELSE IF mode = "one" THEN Some(currentIndex)
  ELSE IF currentIndex >= queueLength
       THEN (IF mode = "all" THEN Some(0) ELSE Null)
  ELSE Some(currentIndex + 1)

getNextIndex(currentIndex, queueLength, mode) ==
  IF queueLength = 0 THEN Null
  ELSE IF mode = "one" THEN Some(currentIndex)
  ELSE IF currentIndex >= queueLength - 1
       THEN (IF mode = "all" THEN Some(0) ELSE Null)
  ELSE Some(currentIndex + 1)

\* a plausible slip: repeat-all wraps to queueLength instead of queueLength - 1
getPreviousIndexWrapSlip(currentIndex, queueLength, mode) ==
  IF queueLength = 0 THEN Null
  ELSE IF mode = "one" THEN Some(currentIndex)
  ELSE IF currentIndex <= 0
       THEN (IF mode = "all" THEN Some(queueLength) ELSE Null)
  ELSE Some(currentIndex - 1)

getPreviousIndex(currentIndex, queueLength, mode) ==
  IF queueLength = 0 THEN Null
  ELSE IF mode = "one" THEN Some(currentIndex)
  ELSE IF currentIndex <= 0
       THEN (IF mode = "all" THEN Some(queueLength - 1) ELSE Null)
  ELSE Some(currentIndex - 1)

\* a plausible slip: the other tracks are filtered by value, not by index
OtherTracksByValue(tracks, startIndex) ==
  SelectSeq(tracks, LAMBDA t : t # At(tracks, startIndex))

\* tracks.filter((_, i) => i !== startIndex)
OtherTracks(tracks, startIndex) ==
  LET keep == {i \in 0..(Len(tracks) - 1) : i # startIndex}
      nth(k) == CHOOSE i \in keep : Cardinality({j \in keep : j < i}) = k - 1
  IN  [k \in 1..Cardinality(keep) |-> tracks[nth(k) + 1]]

\* a plausible slip: the unshuffled queue also starts at 0
createQueueResetsStart(tracks, startIndex, shouldShuffle, js) ==
  IF shouldShuffle
  THEN [queue |-> <<At(tracks, startIndex)>> \o shuffle(OtherTracks(tracks, startIndex), js),
        startIndex |-> 0]
  ELSE [queue |-> tracks, startIndex |-> 0]

\* createQueue(tracks, startIndex, shouldShuffle) when Math.random() yields js
createQueue(tracks, startIndex, shouldShuffle, js) ==
  IF shouldShuffle
  THEN [queue |-> <<At(tracks, startIndex)>> \o shuffle(OtherTracks(tracks, startIndex), js),
        startIndex |-> 0]
  ELSE [queue |-> tracks, startIndex |-> startIndex]

\* the array object createQueue returns as queue: [first, ...shuffled] or
\* [...tracks]
createQueueArray(tracks, shouldShuffle) ==
  IF shouldShuffle THEN [ref |-> "new"] ELSE [ref |-> Spread(tracks).ref]

Min(a, b) == IF a < b THEN a ELSE b
Max(a, b) == IF a > b THEN a ELSE b

\* Array.prototype.splice's start: counted from the end when negative, and
\* clamped to [0, length]
SpliceStart(length, at) ==
  IF at < 0 THEN Max(length + at, 0) ELSE Min(at, length)

\* a plausible slip: splice(position, 1, ...tracksToAdd) replaces an element
insertIntoQueueReplaces(currentQueue, tracksToAdd, at) ==
  LET start == SpliceStart(Len(currentQueue), at)
  IN  SubSeq(currentQueue, 1, start) \o tracksToAdd
        \o SubSeq(currentQueue, start + 2, Len(currentQueue))

\* insertIntoQueue: newQueue = [...currentQueue];
\* newQueue.splice(position, 0, ...tracksToAdd)
insertIntoQueue(currentQueue, tracksToAdd, at) ==
  LET start == SpliceStart(Len(currentQueue), at)
  IN  SubSeq(currentQueue, 1, start) \o tracksToAdd
        \o SubSeq(currentQueue, start + 1, Len(currentQueue))

\* removeFromQueue of utils/queue: currentQueue.filter((_, i) => i !== index)
removeFromQueueUtil(currentQueue, index) == OtherTracks(currentQueue, index)

\* addToQueue of utils/queue: [...currentQueue, ...tracksToAdd]
addToQueueUtil(currentQueue, tracksToAdd) == currentQueue \o tracksToAdd

\* array.splice(start, 1): the elements removed
SpliceOut(array, start) ==
  LET from == SpliceStart(Len(array), start)
  IN  IF from < Len(array) THEN <<array[from + 1]>> ELSE <<>>

\* a plausible slip: the destination is shifted when the track moves forward
moveInQueueShifted(currentQueue, fromIndex, toIndex) ==
  LET removed == SpliceOut(currentQueue, fromIndex)
      newQueue == IF removed = <<>> THEN currentQueue
                  ELSE removeFromQueueUtil(currentQueue,
                                           SpliceStart(Len(currentQueue), fromIndex))
      track == IF removed = <<>> THEN Undefined ELSE removed[1]
  IN  insertIntoQueue(newQueue, <<track>>,
                      IF fromIndex < toIndex THEN toIndex - 1 ELSE toIndex)

\* moveInQueue: newQueue = [...currentQueue];
\* [track] = newQueue.splice(fromIndex, 1); newQueue.splice(toIndex, 0, track)
moveInQueue(currentQueue, fromIndex, toIndex) ==
  LET removed == SpliceOut(currentQueue, fromIndex)
      newQueue == IF removed = <<>> THEN currentQueue
                  ELSE removeFromQueueUtil(currentQueue,
                                           SpliceStart(Len(currentQueue), fromIndex))
      track == IF removed = <<>> THEN Undefined ELSE removed[1]
  IN  insertIntoQueue(newQueue, <<track>>, toIndex)

\* the calls of the model, arguments drawn from bounded sets
QueueCalls ==
  [fn : {"getNextIndex", "getPreviousIndex"}, currentIndex : 0..MaxLen,
   queueLength : 0..MaxLen, repeatMode : RepeatModes, done : {FALSE}]
  \cup
  [fn : {"createQueue"}, tracks : TrackLists, startIndex : 0..(MaxLen - 1),
   shouldShuffle : BOOLEAN, done : {FALSE}]
  \cup
  [fn : {"shuffle"}, array : TrackLists, done : {FALSE}]
  \cup
  [fn : {"insertIntoQueue"}, currentQueue : TrackLists,
   tracksToAdd : SeqsUpTo(Tracks, MaxInsert), position : 0..MaxLen,
   done : {FALSE}]
  \cup
  [fn : {"addToQueue"}, currentQueue : TrackLists,
   tracksToAdd : SeqsUpTo(Tracks, MaxInsert), done : {FALSE}]
  \cup
  [fn : {"removeFromQueue"}, currentQueue : TrackLists, index : -1..MaxLen,
   done : {FALSE}]
  \cup
  [fn : {"moveInQueue"}, currentQueue : TrackLists, fromIndex : -1..MaxLen,
   toIndex : -1..MaxLen, done : {FALSE}]

CallGetNextIndex ==
  /\ call.fn = "getNextIndex" /\ ~call.done
  /\ call' = [fn |-> call.fn, currentIndex |-> call.currentIndex,
              queueLength |-> call.queueLength, repeatMode |-> call.repeatMode,
              done |-> TRUE,
              result |-> getNextIndex(call.currentIndex, call.queueLength, call.repeatMode)]
  /\ UNCHANGED otherThanQueue

CallGetPreviousIndex ==
  /\ call.fn = "getPreviousIndex" /\ ~call.done
  /\ call' = [fn |-> call.fn, currentIndex |-> call.currentIndex,
              queueLength |-> call.queueLength, repeatMode |-> call.repeatMode,
              done |-> TRUE,
              result |-> getPreviousIndex(call.currentIndex, call.queueLength, call.repeatMode)]
  /\ UNCHANGED otherThanQueue

CallCreateQueue ==
  /\ call.fn = "createQueue" /\ ~call.done
  /\ \E js \in RandomDraws(Len(OtherTracks(call.tracks, call.startIndex))) :
       call' = [fn |-> call.fn, tracks |-> call.tracks, startIndex |-> call.startIndex,
                shouldShuffle |-> call.shouldShuffle, done |-> TRUE,
                result |-> createQueue(call.tracks, call.startIndex,
                                       call.shouldShuffle, js),
                resultArray |-> createQueueArray(call.tracks, call.shouldShuffle)]
  /\ UNCHANGED otherThanQueue

\* shuffle(array): the loop runs on newArray = [...array], which is returned
CallShuffle ==
  /\ call.fn = "shuffle" /\ ~call.done
  /\ \E js \in RandomDraws(Len(call.array)) :
       LET newArray == Spread(call.array)
           result == shuffle(newArray.items, js)
       IN  call' = [fn |-> call.fn, array |-> call.array, done |-> TRUE,
                    result |-> result,
                    arrayAfter |-> ArgumentAfter(call.array, newArray, result)]
  /\ UNCHANGED otherThanQueue

\* insertIntoQueue(currentQueue, tracksToAdd, position)
CallInsertIntoQueue ==
  /\ call.fn = "insertIntoQueue" /\ ~call.done
  /\ call' = [fn |-> call.fn, currentQueue |-> call.currentQueue,
              tracksToAdd |-> call.tracksToAdd, position |-> call.position,
              done |-> TRUE, removed |-> 0,
              result |-> insertIntoQueue(call.currentQueue, call.tracksToAdd,
                                         call.position),
              inserted |-> insertIntoQueue(call.currentQueue, call.tracksToAdd,
                                           call.position),
              currentQueueAfter |->
                ArgumentAfter(call.currentQueue, Spread(call.currentQueue),
                              insertIntoQueue(call.currentQueue, call.tracksToAdd,
                                              call.position))]
  /\ UNCHANGED otherThanQueue

\* removeFromQueue on the queue insertIntoQueue returned: the inserted
\* positions position .. position + length - 1 are removed one call at a time,
\* the highest first, so that each index still names the same element
CallRemoveFromQueue ==
  /\ call.fn = "insertIntoQueue" /\ call.done
  /\ call.removed < Len(call.tracksToAdd)
  /\ LET index == call.position + Len(call.tracksToAdd) - 1 - call.removed
     IN  call' = [call EXCEPT !.removed = @ + 1,
                              !.result = removeFromQueueUtil(@, index)]
  /\ UNCHANGED otherThanQueue

\* addToQueue(currentQueue, tracksToAdd): the result is a new array literal
CallAddToQueue ==
  /\ call.fn = "addToQueue" /\ ~call.done
  /\ LET result == addToQueueUtil(call.currentQueue, call.tracksToAdd)
     IN  call' = [fn |-> call.fn, currentQueue |-> call.currentQueue,
                  tracksToAdd |-> call.tracksToAdd, done |-> TRUE,
                  result |-> result,
                  currentQueueAfter |->
                    ArgumentAfter(call.currentQueue, Spread(call.currentQueue), result)]
  /\ UNCHANGED otherThanQueue

\* removeFromQueue(currentQueue, index): filter returns a new array
CallRemoveAt ==
  /\ call.fn = "removeFromQueue" /\ ~call.done
  /\ LET result == removeFromQueueUtil(call.currentQueue, call.index)
     IN  call' = [fn |-> call.fn, currentQueue |-> call.currentQueue,
                  index |-> call.index, done |-> TRUE,
                  result |-> result,
                  currentQueueAfter |->
                    ArgumentAfter(call.currentQueue, Spread(call.currentQueue), result)]
  /\ UNCHANGED otherThanQueue

\* moveInQueue(currentQueue, fromIndex, toIndex): the splices run on
\* newQueue = [...currentQueue]
CallMoveInQueue ==
  /\ call.fn = "moveInQueue" /\ ~call.done
  /\ LET result == moveInQueue(call.currentQueue, call.fromIndex, call.toIndex)
     IN  call' = [fn |-> call.fn, currentQueue |-> call.currentQueue,
                  fromIndex |-> call.fromIndex, toIndex |-> call.toIndex,
                  done |-> TRUE,
                  result |-> result,
                  currentQueueAfter |->
                    ArgumentAfter(call.currentQueue, Spread(call.currentQueue), result)]
  /\ UNCHANGED otherThanQueue

QueueNext ==
  \/ CallGetNextIndex
  \/ CallGetPreviousIndex
  \/ CallCreateQueue
  \/ CallShuffle
  \/ CallInsertIntoQueue
  \/ CallRemoveFromQueue
  \/ CallAddToQueue
  \/ CallRemoveAt
  \/ CallMoveInQueue




-----------------------------------------------------------------------------
(* contexts/PlayerContext: the playback session.                            *)
(*                                                                          *)
(* The functions of PlayerProvider are closures over the state of the       *)
(* render that created them.  A handler called from the UI reads the state  *)
(* of the latest render; a continuation after an await and the callback of  *)
(* the progress timer keep reading the render they were created in.  The    *)
(* setters write the committed state.                                       *)

NoTrack == "null"

\* getStreamUrl(trackId)
getStreamUrl(track) == <<"/api/stream", track>>

NoSource == <<>>

\* the times the transport reports while it plays a track; the last is the
\* duration of the track
TransportTimes == <<0, 4, 5>>

TrackDuration == TransportTimes[Len(TransportTimes)]

SeekTargets == {-1, 0, 3, 4}

\* the track lists handed to setQueue
QueueLists == {<<"A", "B", "C">>, <<"C", "A">>}

\* what the closures of a render read: queue, queueIndex, repeatMode
Closure(q, i, r) == [queue |-> q, queueIndex |-> i, repeatMode |-> r]

\* what the session shows when a handler is called
Shown ==
  [queue |-> queue, queueIndex |-> queueIndex, repeatMode |-> repeatMode,
   currentTrack |-> currentTrack, isPlaying |-> isPlaying, position |-> position,
   polling |-> progressInterval.active]

\* progressIntervalRef.current is null; live counts the intervals that run
NoTimer == [active |-> FALSE, live |-> 0]

\* a plausible slip: the interval already running is not cleared
startWithoutClear(timer, closure) ==
  [active |-> TRUE, closure |-> closure, live |-> timer.live + 1]

\* startProgressTracking(): clearInterval of the running interval, then setInterval
startProgressTracking(timer, closure) ==
  [active |-> TRUE, closure |-> closure,
   live |-> (IF timer.active THEN timer.live - 1 ELSE timer.live) + 1]

\* stopProgressTracking()
stopProgressTracking(timer) ==
  IF timer.active THEN [active |-> FALSE, live |-> timer.live - 1] ELSE timer

NoSaved == [present |-> FALSE]

NoOp == [op |-> "none"]

\* the state after the provider is mounted with nothing in storage
SessionFresh ==
  /\ currentTrack = NoTrack
  /\ queue = <<>>
  /\ queueIndex = 0
  /\ isPlaying = FALSE
  /\ isLoading = FALSE
  /\ position = 0
  /\ duration = 0
  /\ repeatMode = "off"
  /\ shuffleEnabled = FALSE
  /\ progressInterval = NoTimer
  /\ player = [source |-> NoSource, playing |-> FALSE, currentTime |-> 0, duration |-> 0]
  /\ pending = <<>>
  /\ saved = NoSaved
  /\ lastOp = NoOp
  /\ usedPlay = FALSE
  /\ uiCalls = 0

\* the render a UI handler closes over: the latest one, or, for a call made
\* in the same task as a load that is still suspended, the render of that task
UIClosure ==
  IF pending = <<>> THEN Closure(queue, queueIndex, repeatMode)
  ELSE pending[1].closure

\* a handler can be called from the UI: no continuation is waiting to run
UIIdle == pending = <<>> /\ uiCalls < MaxCalls

\* a second load-issuing call in the same task as the suspended ones
UIMayLoad ==
  /\ uiCalls < MaxCalls
  /\ \/ pending = <<>>
     \/ Len(pending) < MaxPending /\ \A i \in 1..Len(pending) : pending[i].origin = "ui"

\* saveState through the auto-save effect: runs when the queue is not empty
Persist(old, q, i, pos) ==
  IF Len(q) > 0 THEN [present |-> TRUE, queue |-> q, index |-> i, position |-> pos]
  ELSE old

\* a plausible slip: the newest suspended loadTrack resumes first
NewestFirst(loads) == Len(loads)

\* which suspended loadTrack resumes next: getTrackUri is an async function
\* without an await of its own, so the awaits resolve in the order of the calls
NextToResume(loads) == 1

\* loadTrack(track) up to await getTrackUri(track.id); track.id throws on undefined
LoadIssued(track) == track # Undefined

\* the suspended loadTrack calls after loadTrack(track) is called
WithLoad(loads, track, closure, origin) ==
  IF LoadIssued(track)
  THEN Append(loads, [track |-> track, closure |-> closure, origin |-> origin])
  ELSE loads

\* playTrackAtIndex(index) returns early
IndexOutOfRange(index, closure) == index < 0 \/ index >= Len(closure.queue)

\* playTrackAtIndex(index) in a handler that has set no state before it
PlayTrackAtIndex(index, closure, origin) ==
  IF IndexOutOfRange(index, closure)
  THEN /\ UNCHANGED <<queueIndex, isLoading, pending>>
  ELSE /\ queueIndex' = index
       /\ isLoading' = LoadIssued(At(closure.queue, index))
       /\ pending' = WithLoad(pending, At(closure.queue, index), closure, origin)

\* the rest of loadTrack, after await getTrackUri
CompleteLoad ==
  /\ pending # <<>>
  /\ LET n == NextToResume(pending)
         load == pending[n]
     IN  /\ player' = [source |-> getStreamUrl(load.track), playing |-> TRUE,
                       currentTime |-> 0, duration |-> TrackDuration]
         /\ currentTrack' = load.track
         /\ position' = 0
         /\ isPlaying' = TRUE
         /\ progressInterval' = startProgressTracking(progressInterval, load.closure)
         /\ isLoading' = FALSE
         /\ pending' = [i \in 1..(Len(pending) - 1) |->
                          IF i < n THEN pending[i] ELSE pending[i + 1]]
         /\ saved' = Persist(saved, queue, queueIndex, 0)
         /\ lastOp' = IF lastOp.op \in {"setQueue", "loads"}
                      THEN [lastOp EXCEPT !.resumed = lastOp.resumed + 1]
                      ELSE lastOp
  /\ UNCHANGED <<queue, queueIndex, duration, repeatMode, shuffleEnabled, usedPlay>>
  /\ UNCHANGED uiCalls
  /\ UNCHANGED otherThanPlayer

\* where the rest of loadTrack can throw: player.replace(uri), player.play()
FailureStages == {"replace", "play"}

\* the rest of loadTrack when the player throws: catch (log, rethrow), finally
FailLoad(stage) ==
  /\ pending # <<>>
  /\ LET n == NextToResume(pending)
         load == pending[n]
     IN  /\ IF stage = "replace"
            THEN UNCHANGED <<player, currentTrack, position>>
            ELSE /\ player' = [source |-> getStreamUrl(load.track), playing |-> FALSE,
                               currentTime |-> 0, duration |-> TrackDuration]
                 /\ currentTrack' = load.track
                 /\ position' = 0
         /\ isLoading' = FALSE
         /\ pending' = [i \in 1..(Len(pending) - 1) |->
                          IF i < n THEN pending[i] ELSE pending[i + 1]]
         /\ saved' = Persist(saved, queue, queueIndex, position')
         /\ lastOp' = [op |-> "loadFailed", stage |-> stage, track |-> load.track,
                       outcome |-> "rejected",
                       before |-> [currentTrack |-> currentTrack, isPlaying |-> isPlaying]]
  /\ UNCHANGED <<queue, queueIndex, isPlaying, duration, repeatMode, shuffleEnabled,
                 progressInterval, usedPlay>>
  /\ UNCHANGED uiCalls
  /\ UNCHANGED otherThanPlayer

\* what lastOp records of the load-issuing calls made in one task
LoadsIssued(track, index, caller) ==
  IF lastOp.op = "loads" /\ pending # <<>>
  THEN [lastOp EXCEPT !.tracks = Append(lastOp.tracks, track),
                      !.indices = Append(lastOp.indices, index),
                      !.callers = Append(lastOp.callers, caller)]
  ELSE [op |-> "loads", tracks |-> <<track>>, indices |-> <<index>>,
        callers |-> <<caller>>, resumed |-> 0]

\* play(track)
Play(track) ==
  /\ UIMayLoad
  /\ isLoading' = TRUE
  /\ pending' = WithLoad(pending, track, UIClosure, "ui")
  /\ lastOp' = LoadsIssued(track, Null, "play")
  /\ usedPlay' = TRUE
  /\ UNCHANGED <<currentTrack, queue, queueIndex, isPlaying, position, duration,
                 repeatMode, shuffleEnabled, progressInterval, player, saved>>
  /\ uiCalls' = uiCalls + 1
  /\ UNCHANGED otherThanPlayer

\* the promise of play() called without a track: with no current track the
\* test currentTrack && soundRef.current stops at currentTrack; with one it
\* reads soundRef, which the module declares nowhere, and the ReferenceError
\* rejects the promise before resume() is reached
PlayOutcome(current) == IF current = NoTrack THEN "resolved" ELSE "rejected"

\* play() without a track
PlayCurrent ==
  /\ UIIdle
  /\ lastOp' = [op |-> "play", outcome |-> PlayOutcome(currentTrack),
                before |-> Shown]
  /\ UNCHANGED <<sessionVars, progressInterval, player, pending, saved, usedPlay>>
  /\ uiCalls' = uiCalls + 1
  /\ UNCHANGED otherThanPlayer

\* next()
Next ==
  /\ UIMayLoad
  /\ LET nextIdx == getNextIndex(UIClosure.queueIndex, Len(UIClosure.queue),
                                 UIClosure.repeatMode)
     IN  IF nextIdx # Null
         THEN /\ PlayTrackAtIndex(nextIdx.v, UIClosure, "ui")
              /\ lastOp' = IF IndexOutOfRange(nextIdx.v, UIClosure)
                           THEN [op |-> "next", before |-> Shown]
                           ELSE LoadsIssued(At(UIClosure.queue, nextIdx.v), nextIdx, "next")
         ELSE /\ UNCHANGED <<queueIndex, isLoading, pending>>
              /\ lastOp' = [op |-> "next", before |-> Shown]
  /\ saved' = Persist(saved, queue, queueIndex', position)
  /\ UNCHANGED <<currentTrack, queue, isPlaying, position, duration, repeatMode,
                 shuffleEnabled, progressInterval, player, usedPlay>>
  /\ uiCalls' = uiCalls + 1
  /\ UNCHANGED otherThanPlayer

\* seek(seconds)
SeekEffect(seconds) ==
  /\ player' = [player EXCEPT !.currentTime = seconds]
  /\ position' = seconds

\* pause()
PauseEffect ==
  /\ player' = [player EXCEPT !.playing = FALSE]
  /\ isPlaying' = FALSE
  /\ progressInterval' = stopProgressTracking(progressInterval)

RESTART_AFTER == 3

\* a plausible slip: the track restarts from 3 seconds on
RestartsTrackFrom(seconds) == seconds >= RESTART_AFTER

\* "If more than 3 seconds into track, restart current track"
RestartsTrack(seconds) == seconds > RESTART_AFTER

\* previous()
Previous ==
  /\ UIIdle
  /\ IF RestartsTrack(position)
     THEN /\ SeekEffect(0)
          /\ UNCHANGED <<queueIndex, isLoading, pending>>
     ELSE LET prevIdx == getPreviousIndex(queueIndex, Len(queue), repeatMode)
          IN  /\ IF prevIdx # Null
                 THEN PlayTrackAtIndex(prevIdx.v, UIClosure, "ui")
                 ELSE UNCHANGED <<queueIndex, isLoading, pending>>
              /\ UNCHANGED <<player, position>>
  /\ lastOp' = [op |-> "previous", before |-> Shown]
  /\ saved' = Persist(saved, queue, queueIndex', position')
  /\ UNCHANGED <<currentTrack, queue, isPlaying, duration, repeatMode,
                 shuffleEnabled, progressInterval, usedPlay>>
  /\ uiCalls' = uiCalls + 1
  /\ UNCHANGED otherThanPlayer

\* setQueue(tracks, startIndex): setQueueAndPlay
SetQueueAndPlay(tracks, startIndex) ==
  /\ UIIdle
  /\ \E js \in RandomDraws(Len(OtherTracks(tracks, startIndex))) :
       LET built == createQueue(tracks, startIndex, shuffleEnabled, js)
       IN  /\ queue' = built.queue
           \* setQueueIndex(newStartIndex), then playTrackAtIndex(newStartIndex)
           \* of this render: it sets the same index again, or returns early
           /\ queueIndex' = built.startIndex
           /\ IF IndexOutOfRange(built.startIndex, UIClosure)
              THEN UNCHANGED <<isLoading, pending>>
              ELSE /\ isLoading' = LoadIssued(At(UIClosure.queue, built.startIndex))
                   /\ pending' = WithLoad(pending, At(UIClosure.queue, built.startIndex),
                                          UIClosure, "ui")
           /\ lastOp' = [op |-> "setQueue", tracks |-> tracks, startIndex |-> startIndex,
                         built |-> built, resumed |-> 0]
  /\ saved' = Persist(saved, queue', queueIndex', position)
  /\ UNCHANGED <<currentTrack, isPlaying, position, duration, repeatMode,
                 shuffleEnabled, progressInterval, player, usedPlay>>
  /\ uiCalls' = uiCalls + 1
  /\ UNCHANGED otherThanPlayer

\* addToQueue(track)
AddToQueue(track) ==
  /\ UIIdle
  /\ Len(queue) < MaxQueue
  /\ queue' = addToQueueUtil(queue, <<track>>)
  /\ lastOp' = [op |-> "addToQueue"]
  /\ saved' = Persist(saved, queue', queueIndex, position)
  /\ UNCHANGED <<currentTrack, queueIndex, isPlaying, isLoading, position, duration,
                 repeatMode, shuffleEnabled, progressInterval, player, pending, usedPlay>>
  /\ uiCalls' = uiCalls + 1
  /\ UNCHANGED otherThanPlayer

\* removeFromQueue(index)
RemoveFromQueue(index) ==
  /\ UIIdle
  /\ queue' = removeFromQueueUtil(queue, index)
  /\ IF index < queueIndex
     THEN /\ queueIndex' = queueIndex - 1
          /\ UNCHANGED <<player, isPlaying, progressInterval>>
     ELSE IF index = queueIndex
          THEN PauseEffect /\ UNCHANGED queueIndex
          ELSE UNCHANGED <<queueIndex, player, isPlaying, progressInterval>>
  /\ lastOp' = [op |-> "removeFromQueue", index |-> index]
  /\ saved' = Persist(saved, queue', queueIndex', position)
  /\ UNCHANGED <<currentTrack, isLoading, position, duration, repeatMode,
                 shuffleEnabled, pending, usedPlay>>
  /\ uiCalls' = uiCalls + 1
  /\ UNCHANGED otherThanPlayer

\* clearQueue()
ClearQueue ==
  /\ UIIdle
  /\ PauseEffect
  /\ queue' = <<>>
  /\ queueIndex' = 0
  /\ currentTrack' = NoTrack
  /\ lastOp' = [op |-> "clearQueue", before |-> Shown]
  /\ UNCHANGED <<isLoading, position, duration, repeatMode, shuffleEnabled,
                 pending, saved, usedPlay>>
  /\ uiCalls' = uiCalls + 1
  /\ UNCHANGED otherThanPlayer

\* pause()
Pause ==
  /\ UIIdle
  /\ PauseEffect
  /\ lastOp' = [op |-> "pause", before |-> Shown]
  /\ UNCHANGED <<currentTrack, queue, queueIndex, isLoading, position, duration,
                 repeatMode, shuffleEnabled, pending, saved, usedPlay>>
  /\ uiCalls' = uiCalls + 1
  /\ UNCHANGED otherThanPlayer

\* resume()
Resume ==
  /\ UIIdle
  /\ player' = [player EXCEPT !.playing = TRUE]
  /\ isPlaying' = TRUE
  /\ progressInterval' = startProgressTracking(progressInterval, UIClosure)
  /\ lastOp' = [op |-> "resume", before |-> Shown]
  /\ UNCHANGED <<currentTrack, queue, queueIndex, isLoading, position, duration,
                 repeatMode, shuffleEnabled, pending, saved, usedPlay>>
  /\ uiCalls' = uiCalls + 1
  /\ UNCHANGED otherThanPlayer

\* seek(seconds)
Seek(seconds) ==
  /\ UIIdle
  /\ SeekEffect(seconds)
  /\ lastOp' = [op |-> "seek"]
  /\ saved' = Persist(saved, queue, queueIndex, position')
  /\ UNCHANGED <<currentTrack, queue, queueIndex, isPlaying, isLoading, duration,
                 repeatMode, shuffleEnabled, progressInterval, pending, usedPlay>>
  /\ uiCalls' = uiCalls + 1
  /\ UNCHANGED otherThanPlayer

\* const modes = [REPEAT_MODE.OFF, REPEAT_MODE.ALL, REPEAT_MODE.ONE]
modes == <<"off", "all", "one">>

\* modes.indexOf(mode): -1 when mode is not in the list
indexOf(list, mode) ==
  IF \E i \in 1..Len(list) : list[i] = mode
  THEN (CHOOSE i \in 1..Len(list) :
          list[i] = mode /\ \A j \in 1..(i - 1) : list[j] # mode) - 1
  ELSE -1

\* a plausible slip: the cycle runs the other way round
nextRepeatModeBackwards(mode) ==
  modes[((indexOf(modes, mode) + 2) % Len(modes)) + 1]

\* modes[(currentIndex + 1) % modes.length]
nextRepeatMode(mode) ==
  modes[((indexOf(modes, mode) + 1) % Len(modes)) + 1]

\* toggleRepeat(): off -> all -> one -> off
ToggleRepeat ==
  /\ UIIdle
  /\ repeatMode' = nextRepeatMode(repeatMode)
  /\ lastOp' = [op |-> "toggleRepeat",
                run |-> IF lastOp.op = "toggleRepeat" THEN lastOp.run + 1 ELSE 1,
                start |-> IF lastOp.op = "toggleRepeat" THEN lastOp.start
                          ELSE repeatMode]
  /\ UNCHANGED <<currentTrack, queue, queueIndex, isPlaying, isLoading, position,
                 duration, shuffleEnabled, progressInterval, player, pending, saved,
                 usedPlay>>
  /\ uiCalls' = uiCalls + 1
  /\ UNCHANGED otherThanPlayer

\* a plausible slip: the toggle only ever turns shuffle on
toggledOn(enabled) == TRUE

\* !shuffleEnabled
toggled(enabled) == ~enabled

\* toggleShuffle()
ToggleShuffle ==
  /\ UIIdle
  /\ shuffleEnabled' = toggled(shuffleEnabled)
  /\ lastOp' = [op |-> "toggleShuffle"]
  /\ UNCHANGED <<currentTrack, queue, queueIndex, isPlaying, isLoading, position,
                 duration, repeatMode, progressInterval, player, pending, saved,
                 usedPlay>>
  /\ uiCalls' = uiCalls + 1
  /\ UNCHANGED otherThanPlayer

\* the transport plays on: the reported time moves to the next of
\* TransportTimes, and playing turns false when the track is over
TransportPlays ==
  /\ player.playing
  /\ player.currentTime < player.duration
  /\ LET later == {t \in {TransportTimes[i] : i \in 1..Len(TransportTimes)} :
                     t > player.currentTime}
         t == CHOOSE x \in later : \A y \in later : x <= y
     IN  player' = [player EXCEPT !.currentTime = t,
                                  !.playing = t < player.duration]
  /\ UNCHANGED <<sessionVars, progressInterval, pending, saved, lastOp, usedPlay>>
  /\ UNCHANGED uiCalls
  /\ UNCHANGED otherThanPlayer

\* !player.playing && player.currentTime >= player.duration - 0.5 && player.duration > 0
TrackEnded ==
  /\ ~player.playing
  /\ 2 * player.currentTime >= 2 * player.duration - 1
  /\ player.duration > 0

\* the callback of the progress timer, with handleTrackEnd when the track is over
PollProgress ==
  /\ progressInterval.active
  /\ pending = <<>>
  /\ duration' = player.duration
  /\ LET closure == progressInterval.closure
         nextIdx == getNextIndex(closure.queueIndex, Len(closure.queue),
                                 closure.repeatMode)
     IN  IF ~TrackEnded
         THEN /\ position' = player.currentTime
              /\ UNCHANGED <<queueIndex, isLoading, pending, player, isPlaying,
                             progressInterval>>
         ELSE IF nextIdx # Null /\ nextIdx # Some(closure.queueIndex)
         THEN /\ position' = player.currentTime
              /\ PlayTrackAtIndex(nextIdx.v, closure, "timer")
              /\ UNCHANGED <<player, isPlaying, progressInterval>>
         ELSE IF closure.repeatMode = "one"
         THEN \* seek(0) and resume()
              /\ position' = 0
              /\ player' = [player EXCEPT !.currentTime = 0, !.playing = TRUE]
              /\ isPlaying' = TRUE
              /\ progressInterval' = startProgressTracking(progressInterval, closure)
              /\ UNCHANGED <<queueIndex, isLoading, pending>>
         ELSE /\ position' = player.currentTime
              /\ isPlaying' = FALSE
              /\ progressInterval' = stopProgressTracking(progressInterval)
              /\ UNCHANGED <<queueIndex, isLoading, pending, player>>
  /\ lastOp' = [op |-> "poll", ended |-> TrackEnded, before |-> Shown]
  /\ saved' = Persist(saved, queue, queueIndex', position')
  /\ UNCHANGED <<currentTrack, queue, repeatMode, shuffleEnabled, usedPlay>>
  /\ UNCHANGED uiCalls
  /\ UNCHANGED otherThanPlayer

\* the app is started again: fresh state, then loadSavedState
Restart ==
  /\ UIIdle
  /\ currentTrack' = NoTrack
  /\ isPlaying' = FALSE
  /\ isLoading' = FALSE
  /\ duration' = 0
  /\ repeatMode' = "off"
  /\ shuffleEnabled' = FALSE
  /\ progressInterval' = NoTimer
  /\ player' = [source |-> NoSource, playing |-> FALSE, currentTime |-> 0, duration |-> 0]
  /\ IF saved.present /\ Len(saved.queue) > 0
     THEN /\ queue' = saved.queue
          /\ queueIndex' = saved.index
          /\ position' = saved.position
     ELSE /\ queue' = <<>>
          /\ queueIndex' = 0
          /\ position' = 0
  /\ lastOp' = [op |-> "restore"]
  /\ UNCHANGED <<pending, saved, usedPlay>>
  /\ uiCalls' = uiCalls + 1
  /\ UNCHANGED otherThanPlayer

PlayerNext ==
  \/ CompleteLoad
  \/ \E stage \in FailureStages : FailLoad(stage)
  \/ \E track \in Tracks : Play(track)
  \/ PlayCurrent
  \/ Next
  \/ Previous
  \/ \E tracks \in QueueLists : \E startIndex \in 0..(Len(tracks) - 1) :
       SetQueueAndPlay(tracks, startIndex)
  \/ \E track \in Tracks : AddToQueue(track)
  \/ \E index \in -1..MaxQueue : RemoveFromQueue(index)
  \/ ClearQueue
  \/ Pause
  \/ Resume
  \/ \E seconds \in SeekTargets : Seek(seconds)
  \/ ToggleRepeat
  \/ ToggleShuffle
  \/ TransportPlays
  \/ PollProgress
  \/ Restart

-----------------------------------------------------------------------------
(* UserProvider: the recently played list.  A track is its track_id; a list *)
(* entry is the track with the played_at stamp added.                       *)

\* PLAYER_CONFIG.MAX_RECENT_TRACKS
MAX_RECENT_TRACKS == 50

\* a list addToRecentlyPlayed has stored: n entries, track_id 1 played last
StoredRecent(n) == [i \in 1..n |-> [track_id |-> i, played_at |-> 0 - i]]

\* the lists found in storage when the provider mounts
StoredLists ==
  {StoredRecent(0), StoredRecent(1), StoredRecent(MAX_RECENT_TRACKS - 1),
   StoredRecent(MAX_RECENT_TRACKS)}

\* the tracks handed to addToRecentlyPlayed: the head and the tail of a full
\* stored list, and two tracks that are in no stored list
PlayedTracks == {1, MAX_RECENT_TRACKS, MAX_RECENT_TRACKS + 1, MAX_RECENT_TRACKS + 2}

\* a plausible slip: slice(0, MAX + 1) keeps one entry too many
sliceKeepsOneMore(array, end) == SubSeq(array, 1, Min(Len(array), end + 1))

\* array.slice(0, end)
slice(array, end) == SubSeq(array, 1, Min(Len(array), end))

\* the newRecent of addToRecentlyPlayed(track) computed from the list of
\* the render the callback closes over
newRecent(list, track, now) ==
  LET filtered == SelectSeq(list, LAMBDA t : t.track_id # track)
  IN  slice(<<[track_id |-> track, played_at |-> now]>> \o filtered,
            MAX_RECENT_TRACKS)

\* the provider before it mounts
UserFresh ==
  /\ recentlyPlayed = <<>>
  /\ rendered = <<>>
  /\ recentStored = <<>>
  /\ userClock = 0
  /\ userLast = [op |-> "none", calls |-> 0]

\* the provider once loadUserData has read the stored list into the state
UserLoaded ==
  /\ recentStored \in StoredLists
  /\ recentlyPlayed = recentStored
  /\ rendered = recentStored
  /\ userClock = 0
  /\ userLast = [op |-> "none", calls |-> 0]

\* addToRecentlyPlayed(track).  elapsed: the milliseconds since the clock was
\* last read; setItemFails: AsyncStorage.setItem rejects, which the catch logs
AddToRecentlyPlayed(track, elapsed, setItemFails) ==
  /\ userLast.calls < MaxAdds
  /\ LET now == userClock + elapsed
         new == newRecent(rendered, track, now)
     IN  /\ userClock' = now
         /\ recentlyPlayed' = new
         /\ recentStored' = IF setItemFails THEN recentStored ELSE new
         /\ userLast' = [op |-> "add", track |-> track,
                         backToBack |-> rendered # recentlyPlayed,
                         calls |-> userLast.calls + 1]
  /\ UNCHANGED rendered
  /\ UNCHANGED otherThanUser

\* the provider renders again: the callback is rebuilt over the new state
Rerender ==
  /\ rendered # recentlyPlayed
  /\ rendered' = recentlyPlayed
  /\ UNCHANGED <<recentlyPlayed, recentStored, userClock, userLast>>
  /\ UNCHANGED otherThanUser

\* the app starts again: loadUserData reads the stored list into the state
Remount ==
  /\ userLast.op = "add"
  /\ recentlyPlayed' = recentStored
  /\ rendered' = recentStored
  /\ userLast' = [op |-> "mount", calls |-> userLast.calls]
  /\ UNCHANGED <<recentStored, userClock>>
  /\ UNCHANGED otherThanUser

UserNext ==
  \/ \E track \in PlayedTracks, elapsed \in 0..1, setItemFails \in BOOLEAN :
       AddToRecentlyPlayed(track, elapsed, setItemFails)
  \/ Rerender
  \/ Remount

-----------------------------------------------------------------------------
(* Specifications *)

CacheInit ==
  /\ CacheEmpty
  /\ call = NoCall
  /\ SessionFresh
  /\ UserFresh

SpecCache == CacheInit /\ [][CacheNext]_vars

QueueInit ==
  /\ CacheEmpty
  /\ call \in QueueCalls
  /\ SessionFresh
  /\ UserFresh

SpecQueue == QueueInit /\ [][QueueNext]_vars

PlayerInit ==
  /\ CacheEmpty
  /\ call = NoCall
  /\ SessionFresh
  /\ UserFresh

SpecPlayer == PlayerInit /\ [][PlayerNext]_vars

UserInit ==
  /\ CacheEmpty
  /\ call = NoCall
  /\ SessionFresh
  /\ UserLoaded

SpecUser == UserInit /\ [][UserNext]_vars

TasksInit ==
  /\ CacheEmpty
  /\ call = NoCall
  /\ SessionFresh
  /\ UserFresh

SpecTasks == TasksInit /\ [][TasksNext]_vars

-----------------------------------------------------------------------------
(* Cache manager: properties *)

\* the keys of getCacheInventory() on the current store
InventoryKeys == {k \in AllKeys : IsCacheKey(k) /\ HasSize(store, k)}

\* calculateTotalCacheSize() on the current store
TotalSize == SumSizes(getCacheInventory(store, <<KeyLibrary, KeyTracks1, KeyTracks2>>))

\* position of key k in a sequence of keys (0 when it is not there)
PosOf(keys, k) ==
  IF \E i \in 1..Len(keys) : keys[i] = k
  THEN CHOOSE i \in 1..Len(keys) : keys[i] = k
  ELSE 0

EvRunning == ev.pc \in {"loop", "done", "failed"}

EvInventoryKeys == [i \in 1..Len(ev.inventory) |-> ev.inventory[i].key]

\* the inventory rows evictLRUCache may delete
EvEvictableRows ==
  {ev.inventory[i] : i \in {j \in 1..Len(ev.inventory) :
                              ev.inventory[j].key \notin ev.protectedKeys}}

EvRow(k) == ev.inventory[PosOf(EvInventoryKeys, k)]

\* x comes before y in LRU order: older access, or the same and earlier in the inventory
LruBefore(x, y) ==
  \/ x.lastAccessed < y.lastAccessed
  \/ /\ x.lastAccessed = y.lastAccessed
     /\ PosOf(EvInventoryKeys, x.key) < PosOf(EvInventoryKeys, y.key)

C2_ProtectedNeverEvicted ==
  EvRunning =>
    /\ \A i \in 1..Len(ev.deleted) : ev.deleted[i] \notin ev.protectedKeys
    /\ \A i \in 1..Len(ev.inventory) :
         ev.inventory[i].key \in ev.protectedKeys =>
           /\ store[ev.inventory[i].key] # Absent
           /\ store[ev.inventory[i].key].size = ev.inventory[i].size

\* an eviction that ran out of evictable entries with a protected entry
\* left and the cache still over budget
C2_Witness ==
  /\ ev.pc = "done"
  /\ Len(ev.deleted) >= 1
  /\ \E i \in 1..Len(ev.inventory) : ev.inventory[i].key \in ev.protectedKeys
  /\ TotalSize > ev.maxSizeBytes

\* C3: evictLRUCache deletes in ascending lastAccessed order: when it has
\* deleted e, every evictable entry that comes before e in LRU order (older
\* lastAccessed, or equal lastAccessed and earlier in the inventory) was
\* deleted before e.
C3_OldestFirst ==
  EvRunning =>
    \A i \in 1..Len(ev.deleted) :
      \A x \in EvEvictableRows :
        LruBefore(x, EvRow(ev.deleted[i])) =>
          \E j \in 1..(i - 1) : ev.deleted[j] = x.key

\* three deletions: the first two tie on lastAccessed, the third was listed
\* first in the inventory
C3_Witness ==
  /\ EvRunning
  /\ Len(ev.deleted) = 3
  /\ EvRow(ev.deleted[1]).lastAccessed = EvRow(ev.deleted[2]).lastAccessed
  /\ EvRow(ev.deleted[2]).lastAccessed < EvRow(ev.deleted[3]).lastAccessed
  /\ ev.inventory[1].key = ev.deleted[3]

\* the sizes of the keys in a sequence, added up from the inventory rows
RECURSIVE SumDeleted(_)
SumDeleted(keys) ==
  IF Len(keys) = 0 THEN 0 ELSE EvRow(keys[1]).size + SumDeleted(Tail(keys))

RECURSIVE SumRowSet(_)
SumRowSet(rows) ==
  IF rows = {} THEN 0
  ELSE LET r == CHOOSE x \in rows : TRUE IN r.size + SumRowSet(rows \ {r})

InventoryKeysOf(s) == {k \in AllKeys : IsCacheKey(k) /\ HasSize(s, k)}

C17_PutNeverRejects ==
  (last.op = "put" /\ last.setItemFails) =>
    /\ last.outcome = "resolved"
    /\ store[last.key] = last.before


\* C30: a get hit changes only lastAccessed: timestamp, size, type and payload
\* of every entry are those of its last write, and size is the serialized
\* length of the payload written.
C30_HitKeepsEntry ==
  \A k \in AllKeys :
    (store[k] # Absent /\ store[k].kind = "cached" /\ putLog[k].put) =>
      /\ store[k].timestamp = putLog[k].at
      /\ store[k].size = BlobSize(JSONstringify(putLog[k].payload))
      /\ store[k].type = detectCacheType(k)
      /\ store[k].data = JSONstringify(putLog[k].payload)

\* a hit at a later instant than the write
C30_Witness ==
  /\ last.op = "get" /\ last.result = Hit(<<2, 3>>)
  /\ store[last.key] # Absent
  /\ store[last.key].lastAccessed = last.at
  /\ store[last.key].timestamp < last.at

\* the sizes of the entries with the given keys in the store s, added up
RECURSIVE SumOverKeys(_, _)
SumOverKeys(s, keys) ==
  IF keys = {} THEN 0
  ELSE LET k == CHOOSE x \in keys : TRUE
       IN  s[k].size + SumOverKeys(s, keys \ {k})

\* the total size of the inventory of the store s
StoredBytes(s) == SumOverKeys(s, InventoryKeysOf(s))

\* evictLRUCache has returned and no other cache operation has run since
EvictReturned == last.op = "evict" /\ ev.pc \in {"done", "failed"}

\* C25: when the total size is at most maxSizeBytes, evictLRUCache deletes
\* nothing and returns {evictedCount: 0, freedBytes: 0}; a second call right
\* after a call that brought the cache to or under the same budget returns
\* {evictedCount: 0, freedBytes: 0} and leaves the store unchanged.
C25_NoOpAtOrUnderBudget ==
  /\ (last.op = "evict" /\ StoredBytes(last.before) <= ev.maxSizeBytes) =>
        /\ ev.pc = "done"
        /\ ev.result = Returned(0, 0)
        /\ ev.deleted = <<>>
        /\ store = last.before
  /\ ( /\ EvictReturned
       /\ ev.follows = "repeat"
       /\ StoredBytes(last.before) <= ev.maxSizeBytes ) =>
        /\ ev.result = Returned(0, 0)
        /\ store = last.before

\* a second eviction right after one that deleted an entry and reached the
\* budget exactly
C25_Witness ==
  /\ EvictReturned
  /\ ev.follows = "repeat"
  /\ StoredBytes(last.before) = ev.maxSizeBytes /\ ev.maxSizeBytes > 0
  /\ ev.result = Returned(0, 0) /\ store = last.before

\* the cache types of the model
CacheTypes == {"library", "playlist_tracks", "api_cache", "other", "unknown"}

\* the inventory keys of the store whose entry has the given type
KeysOfType(type) == {k \in InventoryKeys : store[k].type = type}

\* the sum of f over the finite set S
RECURSIVE SumOver(_, _)
SumOver(f, S) ==
  IF S = {} THEN 0
  ELSE LET x == CHOOSE y \in S : TRUE IN f[x] + SumOver(f, S \ {x})

\* C26: calculateTotalCacheSize() is the sum of the sizes of the inventory;
\* getCacheStats() groups the inventory by type: each group holds the count
\* and bytes of the entries of its type, the counts add up to the number of
\* inventory entries and the bytes to the total size.
C26_SizeAccounting ==
  last.op = "stats" =>
    LET stats == last.stats
        types == DOMAIN stats.byType
    IN  /\ last.totalSize = StoredBytes(store)
        /\ stats.totalSize = last.totalSize
        /\ stats.entryCount = Cardinality(InventoryKeys)
        /\ types = {t \in CacheTypes : KeysOfType(t) # {}}
        /\ \A t \in types :
             /\ stats.byType[t].count = Cardinality(KeysOfType(t))
             /\ stats.byType[t].size = SumOverKeys(store, KeysOfType(t))
        /\ SumOver([t \in types |-> stats.byType[t].count], types) = stats.entryCount
        /\ SumOver([t \in types |-> stats.byType[t].size], types) = last.totalSize

\* three entries in two groups, one group of two
C26_Witness ==
  /\ last.op = "stats"
  /\ last.stats.entryCount = 3
  /\ DOMAIN last.stats.byType = {"library", "playlist_tracks"}
  /\ last.stats.byType["playlist_tracks"].count = 2
  /\ last.stats.byType["library"].size # last.stats.byType["playlist_tracks"].size

\* C29: the value evictLRUCache returns reports what it deleted: evictedCount
\* is the number of entries it removed from the store and freedBytes the sum
\* of their sizes, in a shortfall and when a removal fails part-way.
C29_ReturnReportsDeletions ==
  EvictReturned =>
    /\ ev.result.evictedCount = Cardinality(InventoryKeysOf(last.before)
                                              \ InventoryKeysOf(store))
    /\ ev.result.freedBytes = StoredBytes(last.before) - StoredBytes(store)

-----------------------------------------------------------------------------
(* Queue functions: properties *)

Done(fn) == call.fn = fn /\ call.done

\* number of times x occurs in the sequence q
Count(q, x) == Cardinality({i \in 1..Len(q) : q[i] = x})

\* C8: getNextIndex(currentIndex, length, repeatMode) with currentIndex in
\* [0, length) returns: none when length = 0; currentIndex when repeatMode is
\* one; at the last index 0 under repeat all and none under repeat off;
\* currentIndex + 1 otherwise.
C8_NextIndex ==
  Done("getNextIndex") =>
    /\ call.queueLength = 0 => call.result = Null
    /\ (call.currentIndex < call.queueLength) =>
         call.result =
           IF call.repeatMode = "one" THEN Some(call.currentIndex)
           ELSE IF call.currentIndex = call.queueLength - 1
                THEN (IF call.repeatMode = "all" THEN Some(0) ELSE Null)
           ELSE Some(call.currentIndex + 1)

\* the last index of a three-track queue under repeat all wraps to 0
C8_Witness ==
  /\ Done("getNextIndex")
  /\ call.queueLength = 3 /\ call.currentIndex = 2 /\ call.repeatMode = "all"
  /\ call.result = Some(0)

\* C9: getPreviousIndex(currentIndex, length, repeatMode) with currentIndex in
\* [0, length) returns: none when length = 0; currentIndex when repeatMode is
\* one; at index 0 length - 1 under repeat all and none under repeat off;
\* currentIndex - 1 otherwise.
C9_PreviousIndex ==
  Done("getPreviousIndex") =>
    /\ call.queueLength = 0 => call.result = Null
    /\ (call.currentIndex < call.queueLength) =>
         call.result =
           IF call.repeatMode = "one" THEN Some(call.currentIndex)
           ELSE IF call.currentIndex = 0
                THEN (IF call.repeatMode = "all" THEN Some(call.queueLength - 1) ELSE Null)
           ELSE Some(call.currentIndex - 1)

\* index 0 of a three-track queue under repeat all wraps to 2
C9_Witness ==
  /\ Done("getPreviousIndex")
  /\ call.queueLength = 3 /\ call.currentIndex = 0 /\ call.repeatMode = "all"
  /\ call.result = Some(2)

\* C10: createQueue(tracks, startIndex, true) with a valid startIndex returns
\* a queue as long as tracks whose element 0 is tracks[startIndex], whose other
\* elements are the other tracks (same multiset), and a startIndex of 0.
C10_ShuffledQueuePinsStart ==
  ( /\ Done("createQueue") /\ call.shouldShuffle
    /\ call.startIndex < Len(call.tracks) ) =>
      /\ Len(call.result.queue) = Len(call.tracks)
      /\ call.result.queue[1] = call.tracks[call.startIndex + 1]
      /\ \A t \in Tracks \cup {Undefined} :
           Count(call.result.queue, t) = Count(call.tracks, t)
      /\ call.result.startIndex = 0

\* a shuffled queue of three tracks, one of them twice, whose tail is not in
\* the order of the input
C10_Witness ==
  /\ Done("createQueue") /\ call.shouldShuffle
  /\ call.tracks = <<"A", "B", "A">> /\ call.startIndex = 1
  /\ call.result.queue = <<"B", "A", "A">>

\* C22: shuffle(array) returns a permutation of array (same length, every
\* track as many times), for every array including the empty and the
\* one-element one, and the array passed in holds afterwards what it held.
C22_ShuffleIsPermutation ==
  Done("shuffle") =>
    /\ Len(call.result) = Len(call.array)
    /\ \A t \in Tracks : Count(call.result, t) = Count(call.array, t)
    /\ Len(call.array) <= 1 => call.result = call.array
    /\ call.arrayAfter = call.array

C22_Witness ==
  /\ Done("shuffle")
  /\ call.array = <<"A", "B", "A">> /\ call.result = <<"B", "A", "A">>

\* C23: for 0 <= p <= len(Q), removing the len(items) elements at positions
\* p .. p + len(items) - 1 of insertIntoQueue(Q, items, p) gives Q back.
C23_InsertThenRemoveRestores ==
  ( /\ Done("insertIntoQueue")
    /\ call.position <= Len(call.currentQueue)
    /\ call.removed = Len(call.tracksToAdd) )
  => call.result = call.currentQueue

C23_Witness ==
  /\ Done("insertIntoQueue")
  /\ call.currentQueue = <<"A", "B", "C">> /\ call.tracksToAdd = <<"C", "A">>
  /\ call.position = 1 /\ call.removed = 2
  /\ call.result = <<"A", "B", "C">>

\* C24: createQueue(tracks, startIndex, false) returns the tracks in the same
\* order in an array that is not the one passed in, and startIndex as given.
C24_UnshuffledQueueIsCopy ==
  (Done("createQueue") /\ ~call.shouldShuffle) =>
    /\ call.result.queue = call.tracks
    /\ call.resultArray.ref # Argument(call.tracks).ref
    /\ call.result.startIndex = call.startIndex

C24_Witness ==
  /\ Done("createQueue") /\ ~call.shouldShuffle
  /\ call.tracks = <<"A", "B", "C">> /\ call.startIndex = 2
  /\ call.result = [queue |-> <<"A", "B", "C">>, startIndex |-> 2]

\* the sequence q without its element at index i (counted from 0)
Without(q, i) == SubSeq(q, 1, i) \o SubSeq(q, i + 2, Len(q))

\* C33: addToQueue, insertIntoQueue, removeFromQueue and moveInQueue leave the
\* queue passed in as it was and keep every untouched element in its relative
\* order; moveInQueue with 0 <= fromIndex, toIndex < length returns a
\* permutation of the same length with the moved element at toIndex.
C33_QueueEditsKeepTheRest ==
  /\ Done("addToQueue") =>
       /\ call.currentQueueAfter = call.currentQueue
       /\ Len(call.result) = Len(call.currentQueue) + Len(call.tracksToAdd)
       /\ SubSeq(call.result, 1, Len(call.currentQueue)) = call.currentQueue
       /\ SubSeq(call.result, Len(call.currentQueue) + 1, Len(call.result))
            = call.tracksToAdd
  /\ (Done("insertIntoQueue") /\ call.position <= Len(call.currentQueue)) =>
       LET p == call.position
           n == Len(call.tracksToAdd)
       IN  /\ call.currentQueueAfter = call.currentQueue
           /\ Len(call.inserted) = Len(call.currentQueue) + n
           /\ SubSeq(call.inserted, 1, p) = SubSeq(call.currentQueue, 1, p)
           /\ SubSeq(call.inserted, p + 1, p + n) = call.tracksToAdd
           /\ SubSeq(call.inserted, p + n + 1, Len(call.inserted))
                = SubSeq(call.currentQueue, p + 1, Len(call.currentQueue))
  /\ Done("removeFromQueue") =>
       /\ call.currentQueueAfter = call.currentQueue
       /\ call.result =
            IF 0 <= call.index /\ call.index < Len(call.currentQueue)
            THEN Without(call.currentQueue, call.index)
            ELSE call.currentQueue
  /\ Done("moveInQueue") =>
       /\ call.currentQueueAfter = call.currentQueue
       /\ ( /\ 0 <= call.fromIndex /\ call.fromIndex < Len(call.currentQueue)
            /\ 0 <= call.toIndex /\ call.toIndex < Len(call.currentQueue) ) =>
            /\ Len(call.result) = Len(call.currentQueue)
            /\ \A t \in Tracks :
                 Count(call.result, t) = Count(call.currentQueue, t)
            /\ At(call.result, call.toIndex) = At(call.currentQueue, call.fromIndex)
            /\ Without(call.result, call.toIndex)
                 = Without(call.currentQueue, call.fromIndex)

\* the first of three tracks moved to the end
C33_Witness ==
  /\ Done("moveInQueue")
  /\ call.currentQueue = <<"A", "B", "C">>
  /\ call.fromIndex = 0 /\ call.toIndex = 2
  /\ call.result = <<"B", "C", "A">>

-----------------------------------------------------------------------------
(* Playback session: properties *)

\* play(track) is not one of the queue operations: the behaviours without it
QueueOperationsOnly == ~usedPlay

\* C5: after any sequence of setQueue, playAt, next, previous, addToQueue,
\* removeFromQueue, clear and restore, a non-empty queue has
\* 0 <= queueIndex < len(queue), and an empty queue has no current track.
C5_QueueInvariant ==
  QueueOperationsOnly =>
    /\ Len(queue) > 0 => (0 <= queueIndex /\ queueIndex < Len(queue))
    /\ Len(queue) = 0 => currentTrack = NoTrack

\* the last call was setQueue(tracks, startIndex), and every load it issued is over
SetQueueSettled == lastOp.op = "setQueue" /\ pending = <<>>

\* C6: setQueue(tracks, startIndex) from any session state replaces the queue
\* with createQueue(tracks, startIndex, shuffleEnabled), sets queueIndex to the
\* returned start index, and once the load is over currentTrack is
\* tracks[startIndex] and the session is playing.
C6_SetQueuePlaysStartOfNewQueue ==
  lastOp.op = "setQueue" =>
    /\ queue = lastOp.built.queue
    /\ queueIndex = lastOp.built.startIndex
    /\ SetQueueSettled =>
         /\ currentTrack = At(lastOp.tracks, lastOp.startIndex)
         /\ isPlaying

\* loadTrack was called two or more times in one task, and all of the calls are over
LoadsSettled ==
  /\ lastOp.op = "loads"
  /\ Len(lastOp.tracks) >= 2
  /\ lastOp.resumed = Len(lastOp.tracks)
  /\ pending = <<>>

NextCalled ==
  /\ pending = <<>>
  /\ uiCalls' = uiCalls + 1
  /\ \/ lastOp'.op = "next"
     \/ lastOp'.op = "loads" /\ lastOp'.callers = <<"next">>

\* the callback of the progress timer finds the track over and calls handleTrackEnd
TrackEndFired ==
  /\ pending = <<>>
  /\ uiCalls' = uiCalls
  /\ lastOp'.op = "poll" /\ lastOp'.ended

\* playAt(index) has been called: the index is set and queue[index] is loading
PlayAtCalled(index) ==
  /\ queueIndex' = index
  /\ Len(pending') = 1
  /\ pending'[1].track = At(queue, index)

\* C11: advance() (by next() or by the end of the track) at the last index
\* with repeat off leaves the session not playing, with no current track and
\* polling stopped; when the next index is a valid index it calls playAt on it.
C11_AdvanceAtEndGoesIdle ==
  [][ (NextCalled \/ TrackEndFired) =>
        LET nextIdx == getNextIndex(queueIndex, Len(queue), repeatMode)
        IN  /\ (Len(queue) > 0 /\ queueIndex = Len(queue) - 1 /\ repeatMode = "off")
                 => (~isPlaying' /\ currentTrack' = NoTrack /\ ~progressInterval'.active)
            /\ (nextIdx # Null /\ nextIdx.v < Len(queue)) => PlayAtCalled(nextIdx.v)
    ]_vars

\* previous() is called
PreviousCalled == uiCalls' = uiCalls + 1 /\ lastOp'.op = "previous"

\* C12: previous() more than 3 seconds into the track seeks to 0 and leaves
\* index and track unchanged; otherwise it calls playAt on
\* getPreviousIndex(queueIndex, len(queue), repeatMode) when that is an index,
\* and leaves queue, index, track and playing flag unchanged when it is null.
C12_Retreat ==
  [][ PreviousCalled =>
        LET prevIdx == getPreviousIndex(queueIndex, Len(queue), repeatMode)
        IN  IF position > 3
            THEN /\ position' = 0 /\ player'.currentTime = 0
                 /\ UNCHANGED <<queue, queueIndex, currentTrack, pending>>
            ELSE IF prevIdx = Null
            THEN UNCHANGED <<queue, queueIndex, currentTrack, isPlaying, pending>>
            ELSE IF prevIdx.v < Len(queue)
            THEN PlayAtCalled(prevIdx.v) /\ UNCHANGED queue
            ELSE UNCHANGED <<queue, queueIndex, currentTrack, isPlaying, pending>>
    ]_vars

C12_Witness ==
  /\ lastOp.op = "previous"
  /\ lastOp.before.position > 3
  /\ lastOp.before.currentTrack # NoTrack
  /\ currentTrack = lastOp.before.currentTrack
  /\ position = 0

\* queue [A, B, C], repeat all, C playing at index 2
PlayingLastOfThree(shown) ==
  /\ shown.queue = <<"A", "B", "C">>
  /\ shown.repeatMode = "all"
  /\ shown.queueIndex = 2
  /\ shown.currentTrack = "C"
  /\ shown.isPlaying

\* C13: with queue [A, B, C], repeat all and C playing at index 2, the end of
\* the track loads A with index 0; previous() right after that, at position 0,
\* loads C with index 2.
C13_WrapAround ==
  [][ /\ (TrackEndFired /\ PlayingLastOfThree(Shown)) => PlayAtCalled(0)
      /\ (/\ PreviousCalled
          /\ lastOp.op = "poll" /\ lastOp.ended /\ PlayingLastOfThree(lastOp.before)
          /\ queueIndex = 0 /\ currentTrack = "A" /\ position = 0)
           => PlayAtCalled(2)
    ]_vars

\* C14: when loadTrack fails the error reaches the caller, and the session is
\* left not loading, not playing and with no current track.
C14_FailedLoadGoesIdle ==
  [][ (lastOp.op # "loadFailed" /\ lastOp'.op = "loadFailed") =>
        /\ lastOp'.outcome = "rejected"
        /\ pending' = <<>> => ~isLoading'
        /\ ~isPlaying'
        /\ currentTrack' = NoTrack
    ]_vars

\* removeFromQueue(index) is called
RemoveCalled(index) ==
  /\ uiCalls' = uiCalls + 1
  /\ lastOp' = [op |-> "removeFromQueue", index |-> index]

\* C18: playAt(index) and removeFromQueue(index) with index < 0 or
\* index >= len(queue) leave queue, index, track, playing flag and position
\* unchanged.
C18_OutOfRangeIsNoOp ==
  [][ /\ \A index \in -1..MaxQueue :
           (RemoveCalled(index) /\ (index < 0 \/ index >= Len(queue)))
             => UNCHANGED <<queue, queueIndex, currentTrack, isPlaying, position>>
      /\ (/\ NextCalled
          /\ getNextIndex(queueIndex, Len(queue), repeatMode) # Null
          /\ getNextIndex(queueIndex, Len(queue), repeatMode).v >= Len(queue))
           => UNCHANGED <<queue, queueIndex, currentTrack, isPlaying, position>>
    ]_vars

\* C19: clearQueue() leaves the queue empty, the index reset, no current
\* track, position 0, duration 0, not playing, and polling stopped.
C19_ClearResetsSession ==
  lastOp.op = "clearQueue" =>
    /\ queue = <<>>
    /\ queueIndex = 0
    /\ currentTrack = NoTrack
    /\ position = 0
    /\ duration = 0
    /\ ~isPlaying
    /\ ~progressInterval.active

\* C20: at most one progress interval runs, and one runs exactly when the
\* session is playing.
C20_OnePollingTimerWhilePlaying ==
  /\ progressInterval.live <= 1
  /\ progressInterval.active <=> progressInterval.live = 1
  /\ progressInterval.active <=> isPlaying

C20_Witness ==
  /\ lastOp.op = "resume"
  /\ lastOp.before.polling
  /\ progressInterval.live = 1
  /\ isPlaying

\* C21: in every session state 0 <= position <= duration; seek(seconds) with
\* seconds < 0 or seconds > duration leaves position inside [0, duration].
C21_PositionWithinTrack ==
  0 <= position /\ position <= duration

\* toggleRepeat() is called
ToggleRepeatCalled ==
  /\ uiCalls' = uiCalls + 1
  /\ lastOp'.op = "toggleRepeat"

\* C27: toggleRepeat() takes the repeat mode off -> all -> one -> off; three
\* toggles in a row bring every mode back to itself; no other session field
\* changes.
C27_ToggleRepeatCycles ==
  [][ ToggleRepeatCalled =>
        /\ repeatMode = "off" => repeatMode' = "all"
        /\ repeatMode = "all" => repeatMode' = "one"
        /\ repeatMode = "one" => repeatMode' = "off"
        /\ nextRepeatMode(nextRepeatMode(repeatMode')) = repeatMode
        /\ lastOp'.run = 3 => repeatMode' = lastOp'.start
        /\ UNCHANGED <<currentTrack, queue, queueIndex, isPlaying, isLoading,
                       position, duration, shuffleEnabled>>
    ]_vars

C27_Witness ==
  /\ lastOp.op = "toggleRepeat" /\ lastOp.run = 3
  /\ lastOp.start = "off" /\ repeatMode = "off"

-----------------------------------------------------------------------------
(* UserProvider: properties *)

C31_RepeatOneReplays ==
  [][ (TrackEndFired /\ repeatMode = "one") =>
        /\ queueIndex' = queueIndex
        /\ currentTrack' = currentTrack
        /\ position' = 0
        /\ isPlaying' /\ player'.playing
        /\ progressInterval'.active
    ]_vars


\* toggleShuffle() is called
ToggleShuffleCalled == uiCalls' = uiCalls + 1 /\ lastOp'.op = "toggleShuffle"

\* setQueue(tracks, startIndex) is called
SetQueueCalled == uiCalls' = uiCalls + 1 /\ lastOp'.op = "setQueue"

\* C32: toggleShuffle() flips shuffleEnabled and leaves the queue, queueIndex,
\* currentTrack and the playing state unchanged; the value set is the one the
\* next setQueue builds its queue with.
C32_ToggleShuffleKeepsQueue ==
  [][ /\ ToggleShuffleCalled =>
           /\ shuffleEnabled' = ~shuffleEnabled
           /\ UNCHANGED <<queue, queueIndex, currentTrack, isPlaying>>
      /\ SetQueueCalled =>
           LET tracks == lastOp'.tracks
               startIndex == lastOp'.startIndex
           IN  IF shuffleEnabled
               THEN /\ queue'[1] = At(tracks, startIndex)
                    /\ queueIndex' = 0
                    /\ \A t \in Tracks : Count(queue', t) = Count(tracks, t)
               ELSE queue' = tracks /\ queueIndex' = startIndex
    ]_vars

\* shuffle switched on while [A, B, C] plays from index 0, the queue as built
C32_Witness ==
  /\ lastOp.op = "toggleShuffle"
  /\ shuffleEnabled
  /\ queue = <<"A", "B", "C">> /\ queueIndex = 0
  /\ currentTrack = "A" /\ isPlaying


\* C35: play() without a track, while the session has a current track,
\* resumes: it completes without error and leaves the session playing with the
\* same current track.
C35_PlayResumesCurrentTrack ==
  (lastOp.op = "play" /\ lastOp.before.currentTrack # NoTrack) =>
    /\ lastOp.outcome = "resolved"
    /\ isPlaying /\ player.playing
    /\ currentTrack = lastOp.before.currentTrack


\* C39: whenever no save is pending, the queue and index persisted in storage
\* are the queue and queueIndex of the session; after clearQueue() the
\* persisted queue is empty, so that loadSavedState restores no queue.
C39_PersistedQueueMatchesSession ==
  pending = <<>> =>
    IF saved.present
    THEN saved.queue = queue /\ saved.index = queueIndex
    ELSE queue = <<>>


\* C40: in every session state with no load in flight, a current track that
\* is not null, with a queue that is not empty, is the queue element at
\* queueIndex.
C40_CurrentTrackIsQueueElement ==
  (pending = <<>> /\ currentTrack # NoTrack /\ Len(queue) > 0) =>
    /\ 0 <= queueIndex /\ queueIndex < Len(queue)
    /\ currentTrack = At(queue, queueIndex)

-----------------------------------------------------------------------------
(* Interleaved cache tasks: properties *)

\* C34: after refreshPlaylists() has completed without a fetch error, no entry
\* under a key starting with '@music_app/playlist_tracks_' is left in the store.
C34_RefreshClearsPlaylistTracks ==
  (tasks.last.op = "refreshPlaylists" /\ ~tasks.last.fetchFails) =>
    \A key \in AllKeys :
      StartsWithPlaylistTracksPrefix(key) => store[key] = Absent

\* a step of the housekeeping pass started by App.initializeCache
StartupStep ==
  /\ tasks.house.pc \in {"purge", "evict"}
  /\ tasks.house.startup
  /\ tasks'.last.op \in {"purgeStep", "evictRemove"}

\* C36: the startup pass (cleanupExpiredCache, then evictLRUCache with
\* CACHE_CONFIG.PROTECTED_KEYS) deletes no key of PROTECTED_KEYS, whatever the
\* age or the size of its entry.
C36_StartupKeepsProtectedKeys ==
  [][ StartupStep =>
        \A key \in PROTECTED_KEYS : store[key] # Absent => store'[key] # Absent ]_vars

\* getCachedData returns from its write-back or its expiry removal
GetWroteBack == GetSuspended(tasks) /\ tasks'.last.op = "getWriteBack"

\* C37: when a put or an invalidate of the key has completed between the read
\* of a getCachedData call and its write-back or expiry removal, the write
\* leaves what that operation left: the entry put stays, the removed key
\* stays absent.
C37_GetKeepsLaterOperation ==
  [][ (GetWroteBack /\ tasks.get.overtaken) =>
        LET key == tasks.get.key
        IN  IF store[key] = Absent
            THEN store'[key] = Absent
            ELSE /\ store'[key] # Absent
                 /\ store'[key].data = store[key].data
                 /\ store'[key].timestamp = store[key].timestamp ]_vars

\* a removal of the loop of cleanupExpiredCache or of evictLRUCache
HouseRemoved ==
  /\ HouseLoops(tasks)
  /\ tasks'.last.op \in {"purgeStep", "evictRemove"}

\* C38: an entry put after evictLRUCache or cleanupExpiredCache took its
\* inventory is not removed by the rest of that call.
C38_HousekeepingKeepsLaterPut ==
  [][ HouseRemoved =>
        \A key \in tasks.house.overtaken :
          store[key] # Absent => store'[key] = store[key] ]_vars

====
